---------------------------- MODULE Spec2Model ----------------------------
(***************************************************************************)
(* Project-management backend: RBAC engine (utils/permissions.py), the     *)
(* team-member routes (routes/roles.py, routes/projects.py), the task      *)
(* routes (routes/tasks.py) and the progress recompute                     *)
(* (utils/analytics.py), over an abstract record store with the tables     *)
(* projects, team_members and tasks.                                       *)
(***************************************************************************)
EXTENDS Integers, FiniteSets, Sequences, TLC

(***************************************************************************)
(* Bounds of the model.  Record ids are server-assigned and never reused:  *)
(* each table hands out 1, 2, ... up to its bound.                         *)
(***************************************************************************)
MaxProjects == 1
MaxMembers == 1
MaxTasks == 1
\* Largest number of tasks of the project whose progress is computed (the
\* specification tests task sets of size 0-50).
MaxCount == 50

Users == {"alice", "bob"}

\* Python's None (an absent role, an unassigned task).
None == "None"
\* A field left out of a partial update (model_dump(exclude_unset=True)).
Unset == "Unset"

ProjectIds == 1..MaxProjects
MemberIds == 1..MaxMembers
TaskIds == 1..MaxTasks

(***************************************************************************)
(* utils/permissions.py: Permission, Role, ROLE_PERMISSIONS                *)
(***************************************************************************)
Permission ==
    {"create_project", "edit_project", "delete_project", "view_project",
     "create_task", "edit_task", "delete_task", "view_task", "assign_task",
     "update_task_status",
     "manage_team", "add_member", "remove_member", "update_role",
     "view_analytics"}

OWNER == "owner"
MANAGER == "manager"
DEVELOPER == "developer"
VIEWER == "viewer"
Role == {OWNER, MANAGER, DEVELOPER, VIEWER}

\* models/project.py: the role field of TeamMemberAdd is this enum, so a
\* request body carries one of exactly these four values.
TeamMemberRole == {"owner", "manager", "developer", "viewer"}

\* Role strings a request body carries: the four values of the enum and a
\* string outside it.
RoleRequests == TeamMemberRole \cup {"admin"}

\* models/project.py: TaskStatus
TaskStatus == {"todo", "in_progress", "completed"}

\* Mutant: the developer list also carries edit_task and assign_task.
ROLE_PERMISSIONS_DevEdits ==
    [r \in Role |->
        CASE r = OWNER -> Permission
          [] r = MANAGER ->
                {"edit_project", "view_project", "create_task", "edit_task",
                 "delete_task", "view_task", "assign_task",
                 "update_task_status", "add_member", "view_analytics"}
          [] r = DEVELOPER ->
                {"view_project", "create_task", "view_task",
                 "update_task_status", "edit_task", "assign_task"}
          [] r = VIEWER -> {"view_project", "view_task"}]

ROLE_PERMISSIONS ==
    [r \in Role |->
        CASE r = OWNER ->
                {"create_project", "edit_project", "delete_project",
                 "view_project", "create_task", "edit_task", "delete_task",
                 "view_task", "assign_task", "update_task_status",
                 "manage_team", "add_member", "remove_member", "update_role",
                 "view_analytics"}
          [] r = MANAGER ->
                {"edit_project", "view_project", "create_task", "edit_task",
                 "delete_task", "view_task", "assign_task",
                 "update_task_status", "add_member", "view_analytics"}
          [] r = DEVELOPER ->
                {"view_project", "create_task", "view_task",
                 "update_task_status"}
          [] r = VIEWER -> {"view_project", "view_task"}]

\* Role strings handed to check_permission: the four role values, spellings
\* of them in other letter case, strings that name no role, "" and None.
RoleInputs ==
    {"owner", "manager", "developer", "viewer",
     "OWNER", "Manager", "Developer", "VIEWER",
     "admin", "ADMIN", " owner", "owners", "", None}

\* str.lower() on the role strings above and on the words of an
\* Authorization header.
lower(s) ==
    CASE s = "OWNER" -> "owner"
      [] s = "Bearer" -> "bearer"
      [] s = "BEARER" -> "bearer"
      [] s = "Basic" -> "basic"
      [] s = "Manager" -> "manager"
      [] s = "Developer" -> "developer"
      [] s = "VIEWER" -> "viewer"
      [] s = "ADMIN" -> "admin"
      [] OTHER -> s

\* Mutant: a string that names no role falls back to the viewer's list
\* instead of to no permission.
check_permission_DefaultViewer(user_role, required_permission) ==
    IF user_role = None \/ user_role = ""
    THEN FALSE
    ELSE IF lower(user_role) \in Role
         THEN required_permission \in ROLE_PERMISSIONS[lower(user_role)]
         ELSE required_permission \in ROLE_PERMISSIONS[VIEWER]

check_permission(user_role, required_permission) ==
    IF user_role = None \/ user_role = ""            \* if not user_role
    THEN FALSE
    ELSE IF lower(user_role) \in Role                \* Role(user_role.lower())
         THEN required_permission \in ROLE_PERMISSIONS[lower(user_role)]
         ELSE FALSE                                  \* except ValueError

(***************************************************************************)
(* State                                                                    *)
(***************************************************************************)
VARIABLES
    projects,       \* table projects: id -> [owner_id, progress]
    team_members,   \* table team_members: set of rows [id, project_id, username, role]
    tasks,          \* table tasks: id -> [project_id, assigned_to, status]
    nextProject,    \* next id the store assigns in projects
    nextMember,     \* next id the store assigns in team_members
    nextTask,       \* next id the store assigns in tasks
    last,           \* the request handled last and its outcome
    call,           \* a call of a function on its own: arguments and return
    inflight,       \* requests handled concurrently: request id -> its progress
    users,          \* table users: set of rows [username, password, email]
    auth_tokens,    \* table auth_tokens: set of rows [token, username]
    nextToken       \* number of the next token generate_token() returns

vars == <<projects, team_members, tasks, nextProject, nextMember, nextTask,
          last, call, inflight, users, auth_tokens, nextToken>>

store == <<projects, team_members, tasks, nextProject, nextMember, nextTask>>

\* The tables of utils/supabase_auth.py.  The routes of projects, tasks and
\* team members receive the authenticated user as current_user; the
\* specifications of those routes start from that user and leave these
\* tables as they are.
sessions == <<users, auth_tokens, nextToken>>

\* Outcomes of a request: success or the exception raised (utils/exceptions.py).
OK == "ok"
ProjectNotFound == "ProjectNotFound"
UnauthorizedAccess == "UnauthorizedAccess"
InvalidData == "InvalidData"
TaskNotFound == "TaskNotFound"
TeamMemberNotFound == "TeamMemberNotFound"
InvalidRole == "InvalidRole"
CannotRemoveOwner == "CannotRemoveOwner"
InsufficientPermissions == "InsufficientPermissions"
\* The body does not fit its schema (TeamMemberAdd.role is a TeamMemberRole):
\* the request is answered 422 and the route handler is not entered.
RequestValidationError == "RequestValidationError"

NoRequest ==
    [op |-> "none", caller |-> None, project_id |-> 0, username |-> None,
     role |-> None, task_id |-> 0, token |-> 0, result |-> OK]

Request(op, caller, pid, username, tid, result) ==
    [op |-> op, caller |-> caller, project_id |-> pid, username |-> username,
     role |-> None, task_id |-> tid, token |-> 0, result |-> result]

\* A request of the member routes, whose body carries a username and a role.
MemberRequest(op, caller, pid, username, role, result) ==
    [op |-> op, caller |-> caller, project_id |-> pid, username |-> username,
     role |-> role, task_id |-> 0, token |-> 0, result |-> result]

NoCall == [pc |-> "idle", user_role |-> None, permission |-> "view_project",
           ret |-> FALSE]

Init ==
    /\ projects = <<>>
    /\ team_members = {}
    /\ tasks = <<>>
    /\ nextProject = 1
    /\ nextMember = 1
    /\ nextTask = 1
    /\ last = NoRequest
    /\ call = NoCall
    /\ inflight = <<>>
    /\ users = {}
    /\ auth_tokens = {}
    /\ nextToken = 1

(***************************************************************************)
(* Record store reads (utils/supabase_client.py)                           *)
(***************************************************************************)
\* select_by_id("projects", id) finds a row
ProjectExists(project_id) == project_id \in DOMAIN projects

\* select_by_id("tasks", id) finds a row
TaskExists(task_id) == task_id \in DOMAIN tasks

\* select_with_filters("team_members", {project_id, username})
select_members(project_id, username) ==
    {m \in team_members : m.project_id = project_id /\ m.username = username}

\* select_where("team_members", "project_id", project_id)
members_of(project_id) == {m \in team_members : m.project_id = project_id}

\* select_where("tasks", "project_id", project_id)
tasks_of(project_id) == {t \in DOMAIN tasks : tasks[t].project_id = project_id}

\* The first row of a non-empty result list.
first(rows) == CHOOSE m \in rows : TRUE

(***************************************************************************)
(* utils/permissions.py: role resolution and the task rules                *)
(***************************************************************************)
\* Mutant: the membership row is looked up before the owner comparison.
get_user_role_in_project_RowFirst(username, project_id) ==
    IF select_members(project_id, username) # {}
    THEN first(select_members(project_id, username)).role
    ELSE IF ProjectExists(project_id) /\ projects[project_id].owner_id = username
         THEN OWNER
         ELSE None

get_user_role_in_project(username, project_id) ==
    IF ProjectExists(project_id) /\ projects[project_id].owner_id = username
    THEN OWNER
    ELSE IF select_members(project_id, username) # {}
         THEN first(select_members(project_id, username)).role
         ELSE None

is_project_owner(username, project_id) ==
    ProjectExists(project_id) /\ projects[project_id].owner_id = username

is_project_member(username, project_id) ==
    \/ is_project_owner(username, project_id)
    \/ get_user_role_in_project(username, project_id) # None

\* Mutant: a developer may edit any task.
can_edit_task_AnyDeveloper(username, project_id, task_owner) ==
    LET role == get_user_role_in_project(username, project_id) IN
    IF role = None \/ role = "" THEN FALSE
    ELSE IF role \in {OWNER, MANAGER} THEN TRUE
    ELSE IF role = DEVELOPER THEN TRUE
    ELSE FALSE

can_edit_task(username, project_id, task_owner) ==
    LET role == get_user_role_in_project(username, project_id) IN
    IF role = None \/ role = "" THEN FALSE             \* if not role
    ELSE IF role \in {OWNER, MANAGER} THEN TRUE
    ELSE IF role = DEVELOPER THEN task_owner = username
    ELSE FALSE

\* Mutant: deletion is also open to the developer a task is assigned to.
can_delete_task_OwnTask(username, project_id, task_owner) ==
    LET role == get_user_role_in_project(username, project_id) IN
    IF role = None \/ role = "" THEN FALSE
    ELSE \/ role \in {OWNER, MANAGER}
         \/ (role = DEVELOPER /\ task_owner = username)

can_delete_task(username, project_id, task_owner) ==
    LET role == get_user_role_in_project(username, project_id) IN
    IF role = None \/ role = "" THEN FALSE
    ELSE role \in {OWNER, MANAGER}

\* Mutant: assignment is open to every role that may create a task.
can_assign_task_Creators(username, project_id) ==
    check_permission(get_user_role_in_project(username, project_id), "create_task")

can_assign_task(username, project_id) ==
    check_permission(get_user_role_in_project(username, project_id), "assign_task")

(***************************************************************************)
(* routes/projects.py                                                      *)
(***************************************************************************)
\* Values a request body supplies for the progress field of a project.
ProgressInputs == {0, 75}

check_project_access(project_id, username, require_owner) ==
    IF ~ProjectExists(project_id) THEN ProjectNotFound
    ELSE LET is_owner == projects[project_id].owner_id = username IN
         IF require_owner /\ ~is_owner THEN UnauthorizedAccess
         ELSE IF ~is_owner
                 /\ ~(\E tm \in members_of(project_id) : tm.username = username)
              THEN UnauthorizedAccess
              ELSE OK

create_project(caller, progress) ==
    /\ nextProject <= MaxProjects
    /\ projects' = projects @@
            (nextProject :> [owner_id |-> caller, progress |-> progress])
    /\ nextProject' = nextProject + 1
    /\ last' = Request("create_project", caller, nextProject, None, 0, OK)
    /\ UNCHANGED <<team_members, tasks, nextMember, nextTask, call,
                 inflight, sessions>>

\* progress: {} when the body leaves progress unset, else {value}; other:
\* whether the body sets any of name, description, status.
update_project_outcome(caller, project_id, progress, other) ==
    IF check_project_access(project_id, caller, TRUE) # OK
    THEN check_project_access(project_id, caller, TRUE)
    ELSE IF progress = {} /\ ~other THEN InvalidData
    ELSE OK

update_project(caller, project_id, progress, other) ==
    LET result == update_project_outcome(caller, project_id, progress, other) IN
    /\ last' = Request("update_project", caller, project_id, None, 0, result)
    /\ IF result = OK /\ progress # {}
       THEN projects' = [projects EXCEPT ![project_id].progress =
                                            CHOOSE g \in progress : TRUE]
       ELSE UNCHANGED projects
    /\ UNCHANGED <<team_members, tasks, nextProject, nextMember, nextTask, call,
                 inflight, sessions>>

\* The store deletes the tasks and team_members rows of a deleted project
\* (ON DELETE CASCADE).
delete_project(caller, project_id) ==
    LET result == check_project_access(project_id, caller, TRUE) IN
    /\ last' = Request("delete_project", caller, project_id, None, 0, result)
    /\ IF result = OK
       THEN /\ projects' = [p \in DOMAIN projects \ {project_id} |-> projects[p]]
            /\ team_members' = {m \in team_members : m.project_id # project_id}
            /\ tasks' = [t \in DOMAIN tasks \ tasks_of(project_id) |-> tasks[t]]
       ELSE UNCHANGED <<projects, team_members, tasks>>
    /\ UNCHANGED <<nextProject, nextMember, nextTask, call,
                 inflight, sessions>>

\* POST /projects/{project_id}/team
projects_add_team_member_outcome(caller, project_id, username, role) ==
    IF role \notin TeamMemberRole THEN RequestValidationError
    ELSE IF check_project_access(project_id, caller, TRUE) # OK
    THEN check_project_access(project_id, caller, TRUE)
    ELSE IF select_members(project_id, username) # {} THEN InvalidData
    ELSE OK

projects_add_team_member(caller, project_id, username, role) ==
    LET result == projects_add_team_member_outcome(caller, project_id, username, role) IN
    /\ result = OK => nextMember <= MaxMembers
    /\ last' = MemberRequest("projects.add_team_member", caller, project_id,
                             username, role, result)
    /\ IF result = OK
       THEN /\ team_members' = team_members \cup
                    {[id |-> nextMember, project_id |-> project_id,
                      username |-> username, role |-> role]}
            /\ nextMember' = nextMember + 1
       ELSE UNCHANGED <<team_members, nextMember>>
    /\ UNCHANGED <<projects, tasks, nextProject, nextTask, call,
                 inflight, sessions>>

\* DELETE /projects/{project_id}/team/{member_id}
projects_remove_team_member(caller, project_id, member_id) ==
    LET result == check_project_access(project_id, caller, TRUE) IN
    /\ last' = Request("projects.remove_team_member", caller, project_id, None,
                       0, result)
    /\ IF result = OK
       THEN team_members' = {m \in team_members : m.id # member_id}
       ELSE UNCHANGED team_members
    /\ UNCHANGED <<projects, tasks, nextProject, nextMember, nextTask, call,
                 inflight, sessions>>

(***************************************************************************)
(* routes/roles.py                                                         *)
(***************************************************************************)
verify_project_exists(project_id) ==
    IF ProjectExists(project_id) THEN OK ELSE ProjectNotFound

\* TRUE when validate_role returns, FALSE when it raises InvalidRoleException
validate_role(role) == lower(role) \in Role

\* POST /projects/{project_id}/members
roles_add_team_member_outcome(caller, project_id, username, role) ==
    IF role \notin TeamMemberRole THEN RequestValidationError
    ELSE IF verify_project_exists(project_id) # OK THEN ProjectNotFound
    ELSE IF ~is_project_owner(caller, project_id) THEN InsufficientPermissions
    ELSE IF ~validate_role(role) THEN InvalidRole
    ELSE IF username = projects[project_id].owner_id THEN InvalidData
    ELSE OK

roles_add_team_member(caller, project_id, username, role) ==
    LET result == roles_add_team_member_outcome(caller, project_id, username, role)
        existing_members == select_members(project_id, username)
        inserts == result = OK /\ existing_members = {}
    IN
    /\ inserts => nextMember <= MaxMembers
    /\ last' = MemberRequest("roles.add_team_member", caller, project_id,
                             username, role, result)
    /\ IF result # OK
       THEN UNCHANGED <<team_members, nextMember>>
       ELSE IF existing_members # {}
       THEN \* update the role of the existing row
            /\ team_members' =
                 (team_members \ {first(existing_members)}) \cup
                 {[first(existing_members) EXCEPT !.role = role]}
            /\ UNCHANGED nextMember
       ELSE /\ team_members' = team_members \cup
                    {[id |-> nextMember, project_id |-> project_id,
                      username |-> username, role |-> role]}
            /\ nextMember' = nextMember + 1
    /\ UNCHANGED <<projects, tasks, nextProject, nextTask, call,
                 inflight, sessions>>

\* Mutant: the guard on the owner's username is left out.
update_member_role_outcome_NoOwnerGuard(caller, project_id, username, role) ==
    IF role \notin TeamMemberRole THEN RequestValidationError
    ELSE IF verify_project_exists(project_id) # OK THEN ProjectNotFound
    ELSE IF ~is_project_owner(caller, project_id) THEN InsufficientPermissions
    ELSE IF ~validate_role(role) THEN InvalidRole
    ELSE IF select_members(project_id, username) = {} THEN TeamMemberNotFound
    ELSE OK

\* PUT /projects/{project_id}/members/{username}
update_member_role_outcome(caller, project_id, username, role) ==
    IF role \notin TeamMemberRole THEN RequestValidationError
    ELSE IF verify_project_exists(project_id) # OK THEN ProjectNotFound
    ELSE IF ~is_project_owner(caller, project_id) THEN InsufficientPermissions
    ELSE IF ~validate_role(role) THEN InvalidRole
    ELSE IF username = projects[project_id].owner_id THEN InvalidData
    ELSE IF select_members(project_id, username) = {} THEN TeamMemberNotFound
    ELSE OK

update_member_role(caller, project_id, username, role) ==
    LET result == update_member_role_outcome(caller, project_id, username, role)
        members == select_members(project_id, username)
    IN
    /\ last' = MemberRequest("update_member_role", caller, project_id,
                             username, role, result)
    /\ IF result = OK
       THEN team_members' =
                (team_members \ {first(members)}) \cup
                {[first(members) EXCEPT !.role = role]}
       ELSE UNCHANGED team_members
    /\ UNCHANGED <<projects, tasks, nextProject, nextMember, nextTask, call,
                 inflight, sessions>>

\* DELETE /projects/{project_id}/members/{username}
roles_remove_team_member_outcome(caller, project_id, username) ==
    IF verify_project_exists(project_id) # OK THEN ProjectNotFound
    ELSE IF ~is_project_owner(caller, project_id) THEN InsufficientPermissions
    ELSE IF username = projects[project_id].owner_id THEN CannotRemoveOwner
    ELSE IF select_members(project_id, username) = {} THEN TeamMemberNotFound
    ELSE OK

\* Mutant: the removal also takes the removed user off the project's tasks.
roles_remove_team_member_Unassigns(caller, project_id, username) ==
    LET result == roles_remove_team_member_outcome(caller, project_id, username)
        members == select_members(project_id, username)
    IN
    /\ last' = Request("roles.remove_team_member", caller, project_id, username,
                       0, result)
    /\ IF result = OK
       THEN /\ team_members' = {m \in team_members : m.id # first(members).id}
            /\ tasks' = [t \in DOMAIN tasks |->
                            IF tasks[t].project_id = project_id
                               /\ tasks[t].assigned_to = username
                            THEN [tasks[t] EXCEPT !.assigned_to = None]
                            ELSE tasks[t]]
       ELSE UNCHANGED <<team_members, tasks>>
    /\ UNCHANGED <<projects, nextProject, nextMember, nextTask, call,
                 inflight, sessions>>

roles_remove_team_member(caller, project_id, username) ==
    LET result == roles_remove_team_member_outcome(caller, project_id, username)
        members == select_members(project_id, username)
    IN
    /\ last' = Request("roles.remove_team_member", caller, project_id, username,
                       0, result)
    /\ IF result = OK
       THEN team_members' = {m \in team_members : m.id # first(members).id}
       ELSE UNCHANGED team_members
    /\ UNCHANGED <<projects, tasks, nextProject, nextMember, nextTask, call,
                 inflight, sessions>>

(***************************************************************************)
(* utils/analytics.py: progress recompute                                  *)
(***************************************************************************)
\* Python's float is the IEEE-754 double: 53 significant bits, results
\* rounded to nearest, ties to even.
Precision == 53

\* The n >= 0 with 2^(-n) <= completed / total < 2^(1-n), for
\* 0 < completed <= total.
RECURSIVE binade(_, _, _)
binade(completed, total, n) ==
    IF completed * 2^n >= total THEN n ELSE binade(completed, total, n + 1)

\* Long division: count more bits of the quotient after the bits already
\* produced, rem being the remainder so far.
RECURSIVE long_division(_, _, _, _)
long_division(rem, total, bits, count) ==
    IF count = 0 THEN [bits |-> bits, rem |-> rem]
    ELSE IF 2 * rem >= total
         THEN long_division(2 * rem - total, total, Append(bits, 1), count - 1)
         ELSE long_division(2 * rem, total, Append(bits, 0), count - 1)

\* completed / total as a double, for 0 < completed <= total: [m, n] stands
\* for m * 2^(-n), where m is the significand 1.f, given by its bits
\* m[1] . m[2] ... m[53].  Bit 54 of the quotient and the remainder left
\* after it decide the rounding.
true_divide(completed, total) ==
    LET n == binade(completed, total, 0)
        q == long_division(completed * 2^n - total, total, <<1>>, Precision)
        bit == q.bits
        round_up == /\ bit[Precision + 1] = 1
                    /\ (q.rem # 0 \/ bit[Precision] = 1)
        zeros == {i \in 1..Precision : bit[i] = 0}
        j == CHOOSE i \in zeros : \A k \in zeros : k <= i
    IN  IF ~round_up THEN [m |-> SubSeq(bit, 1, Precision), n |-> n]
        ELSE IF zeros = {}
        THEN [m |-> [i \in 1..Precision |-> IF i = 1 THEN 1 ELSE 0],
              n |-> n - 1]
        ELSE [m |-> [i \in 1..Precision |->
                        IF i < j THEN bit[i] ELSE IF i = j THEN 1 ELSE 0],
              n |-> n]

\* The significand m, as a 53-bit integer, times 100, from bit i down to the
\* first: low collects the bits of the product from the lowest up, carry is
\* what is left above them.
RECURSIVE times_100(_, _, _, _)
times_100(m, i, carry, low) ==
    IF i = 0 THEN [high |-> carry, low |-> low]
    ELSE IF (m[i] * 100 + carry) % 2 = 1
         THEN times_100(m, i - 1, (m[i] * 100 + carry) \div 2, Append(low, 1))
         ELSE times_100(m, i - 1, (m[i] * 100 + carry) \div 2, Append(low, 0))

\* int(x * 100) for the double x = [m, n], 1/128 < x <= 1.  The exact
\* product of the significand and 100 is high * 2^53 + low, with low[i] the
\* bit of weight 2^(i-1); the product is rounded to 53 significant bits and
\* int() drops its fraction.
int_times_100(x) ==
    LET p == times_100(x.m, Precision, 0, <<>>)
        high == p.high
        low == p.low
        \* number of low bits the rounding drops
        d == IF high >= 64 THEN 7 ELSE 6
        round_up == /\ low[d] = 1
                    /\ ((\E i \in 1..(d - 1) : low[i] = 1) \/ low[d + 1] = 1)
        \* the product is worth (high * 2^53 + low) * 2^(-(52 + n)): its
        \* integer part before rounding
        truncated == IF x.n = 0 THEN 2 * high + low[Precision]
                     ELSE high \div 2^(x.n - 1)
        \* the kept bits below the binary point are all 1: the rounding
        \* carries into the integer part
        fraction_ones ==
            /\ \A i \in (d + 1)..Precision :
                   i <= Precision - 1 + x.n => low[i] = 1
            /\ \A i \in 1..(x.n - 1) : (high \div 2^(i - 1)) % 2 = 1
    IN  IF round_up /\ fraction_ones THEN truncated + 1 ELSE truncated

\* Mutant: the completed tasks are set against the tasks still open instead
\* of against all tasks.
progress_percent_OfOpen(completed, total) ==
    IF completed = total THEN 100
    ELSE (completed * 100) \div (total - completed)

\* int((completed / total) * 100), for 0 <= completed <= total, total > 0
int_percent(completed, total) ==
    IF completed = 0 THEN 0
    ELSE int_times_100(true_divide(completed, total))

\* The same value for every pair of counts up to MaxCount, computed once.
percent_table ==
    [total \in 1..MaxCount |-> [completed \in 0..total |->
                                    int_percent(completed, total)]]

progress_percent(completed, total) ==
    IF total <= MaxCount THEN percent_table[total][completed]
    ELSE int_percent(completed, total)

\* The value calculate_project_progress(project_id) returns on the tasks
\* table tbl.
calculate_project_progress_return(tbl, project_id) ==
    LET ids == {t \in DOMAIN tbl : tbl[t].project_id = project_id}
        completed == Cardinality({t \in ids : tbl[t].status = "completed"})
    IN  IF ids = {} THEN 0
        ELSE progress_percent(completed, Cardinality(ids))

\* The projects table after calculate_project_progress(project_id) has run on
\* the tasks table tbl: no write when the project has no task.
calculate_project_progress(tbl, project_id) ==
    LET ids == {t \in DOMAIN tbl : tbl[t].project_id = project_id}
    IN  IF ids = {} THEN projects
        ELSE [projects EXCEPT ![project_id].progress =
                    calculate_project_progress_return(tbl, project_id)]

(***************************************************************************)
(* utils/analytics.py: get_project_timeline.  A datetime is a calendar     *)
(* date with a time of day, [year, month, day, second]; timedelta(days=n)  *)
(* moves the date and keeps the time of day.                               *)
(***************************************************************************)
is_leap(year) == (year % 4 = 0 /\ year % 100 # 0) \/ year % 400 = 0

days_in_month(year, month) ==
    IF month = 2 THEN (IF is_leap(year) THEN 29 ELSE 28)
    ELSE IF month \in {4, 6, 9, 11} THEN 30
    ELSE 31

\* d + timedelta(days=1)
next_day(d) ==
    IF d.day < days_in_month(d.year, d.month) THEN [d EXCEPT !.day = @ + 1]
    ELSE IF d.month < 12 THEN [d EXCEPT !.month = @ + 1, !.day = 1]
    ELSE [d EXCEPT !.year = @ + 1, !.month = 1, !.day = 1]

\* d - timedelta(days=1)
previous_day(d) ==
    IF d.day > 1 THEN [d EXCEPT !.day = @ - 1]
    ELSE IF d.month > 1
    THEN [d EXCEPT !.month = @ - 1,
                   !.day = days_in_month(d.year, d.month - 1)]
    ELSE [d EXCEPT !.year = @ - 1, !.month = 12, !.day = 31]

\* d - timedelta(days=n)
RECURSIVE minus_days(_, _)
minus_days(d, n) == IF n = 0 THEN d ELSE minus_days(previous_day(d), n - 1)

\* a.date() <= b.date()
date_le(a, b) ==
    \/ a.year < b.year
    \/ a.year = b.year /\ a.month < b.month
    \/ a.year = b.year /\ a.month = b.month /\ a.day <= b.day

\* a <= b on datetimes
datetime_le(a, b) ==
    \/ a.year < b.year
    \/ a.year = b.year /\ a.month < b.month
    \/ a.year = b.year /\ a.month = b.month /\ a.day < b.day
    \/ a.year = b.year /\ a.month = b.month /\ a.day = b.day
          /\ a.second <= b.second

\* An updated_at that is null.
NoDate == [year |-> 0, month |-> 0, day |-> 0, second |-> 0]

\* strftime("%Y-%m-%d"): the three fields of the string
strftime(d) == <<d.year, d.month, d.day>>

\* One record of the timeline, for the day of current_date.
timeline_record(tbl, ids, current_date) ==
    LET completed_by_date ==
            Cardinality({t \in ids :
                /\ tbl[t].status = "completed"
                /\ tbl[t].updated_at # NoDate
                /\ date_le(tbl[t].updated_at, current_date)})
        total_tasks == Cardinality(ids)
    IN  [date |-> strftime(current_date),
         completed |-> completed_by_date,
         total |-> total_tasks,
         progress |-> IF total_tasks > 0
                      THEN progress_percent(completed_by_date, total_tasks)
                      ELSE 0]

\* while current_date <= end_date: ...; current_date += timedelta(days=1)
RECURSIVE timeline_loop(_, _, _, _, _)
timeline_loop(tbl, ids, current_date, end_date, timeline) ==
    IF datetime_le(current_date, end_date)
    THEN timeline_loop(tbl, ids, next_day(current_date), end_date,
                       Append(timeline, timeline_record(tbl, ids, current_date)))
    ELSE timeline

\* get_project_timeline(project_id, days) on the tasks table tbl, now being
\* what datetime.now() returns.
get_project_timeline(tbl, project_id, days, now) ==
    LET ids == {t \in DOMAIN tbl : tbl[t].project_id = project_id}
        end_date == now
        start_date == minus_days(end_date, days)
    IN  timeline_loop(tbl, ids, start_date, end_date, <<>>)

(***************************************************************************)
(* routes/tasks.py                                                         *)
(***************************************************************************)
verify_project_access(project_id, username) ==
    IF ~ProjectExists(project_id) THEN ProjectNotFound
    ELSE IF ~is_project_member(username, project_id) THEN UnauthorizedAccess
    ELSE OK

\* a username that is neither None nor empty
truthy(s) == s # None /\ s # ""

\* Mutant: the assignee is not checked to be a member of the project.
create_task_outcome_AnyAssignee(caller, project_id, assigned_to) ==
    IF verify_project_access(project_id, caller) # OK
    THEN verify_project_access(project_id, caller)
    ELSE IF ~check_permission(get_user_role_in_project(caller, project_id),
                              "create_task")
    THEN InsufficientPermissions
    ELSE IF truthy(assigned_to) /\ assigned_to # caller
            /\ ~can_assign_task(caller, project_id)
    THEN InsufficientPermissions
    ELSE OK

create_task_outcome(caller, project_id, assigned_to) ==
    IF verify_project_access(project_id, caller) # OK
    THEN verify_project_access(project_id, caller)
    ELSE IF ~check_permission(get_user_role_in_project(caller, project_id),
                              "create_task")
    THEN InsufficientPermissions
    ELSE IF truthy(assigned_to) /\ ~is_project_member(assigned_to, project_id)
    THEN InvalidData
    ELSE IF truthy(assigned_to) /\ assigned_to # caller
            /\ ~can_assign_task(caller, project_id)
    THEN InsufficientPermissions
    ELSE OK

create_task(caller, project_id, assigned_to, status) ==
    LET result == create_task_outcome(caller, project_id, assigned_to) IN
    /\ result = OK => nextTask <= MaxTasks
    /\ last' = Request("create_task", caller, project_id, None,
                       IF result = OK THEN nextTask ELSE 0, result)
    /\ IF result = OK
       THEN /\ tasks' = tasks @@
                    (nextTask :> [project_id |-> project_id,
                                  assigned_to |-> assigned_to,
                                  status |-> status])
            /\ nextTask' = nextTask + 1
       ELSE UNCHANGED <<tasks, nextTask>>
    /\ UNCHANGED <<projects, team_members, nextProject, nextMember, call,
                 inflight, sessions>>

\* Mutant: the task is looked up by its id alone.
task_lookup_AnyProject(project_id, task_id) ==
    IF ~TaskExists(task_id) THEN TaskNotFound ELSE OK

\* The task lookup shared by the task routes: the id is absent, or the task
\* belongs to another project.
task_lookup(project_id, task_id) ==
    IF ~TaskExists(task_id) THEN TaskNotFound
    ELSE IF tasks[task_id].project_id # project_id THEN TaskNotFound
    ELSE OK

\* GET /projects/{project_id}/tasks/{task_id}
get_task_outcome(caller, project_id, task_id) ==
    IF verify_project_access(project_id, caller) # OK
    THEN verify_project_access(project_id, caller)
    ELSE IF ~check_permission(get_user_role_in_project(caller, project_id),
                              "view_task")
    THEN InsufficientPermissions
    ELSE IF task_lookup(project_id, task_id) # OK THEN TaskNotFound
    ELSE OK

get_task(caller, project_id, task_id) ==
    /\ last' = Request("get_task", caller, project_id, None, task_id,
                       get_task_outcome(caller, project_id, task_id))
    /\ UNCHANGED <<store, call, inflight, sessions>>

\* assigned_to, status: the field of the body or Unset; other: whether the
\* body sets any of title, description, priority.
update_task_outcome(caller, project_id, task_id, assigned_to, status, other) ==
    IF verify_project_access(project_id, caller) # OK
    THEN verify_project_access(project_id, caller)
    ELSE IF task_lookup(project_id, task_id) # OK THEN TaskNotFound
    ELSE IF ~can_edit_task(caller, project_id, tasks[task_id].assigned_to)
    THEN InsufficientPermissions
    ELSE IF assigned_to = Unset /\ status = Unset /\ ~other THEN InvalidData
    ELSE IF assigned_to # Unset /\ assigned_to # tasks[task_id].assigned_to
            /\ ~can_assign_task(caller, project_id)
    THEN InsufficientPermissions
    ELSE IF assigned_to # Unset /\ assigned_to # tasks[task_id].assigned_to
            /\ truthy(assigned_to)
            /\ ~is_project_member(assigned_to, project_id)
    THEN InvalidData
    ELSE OK

update_task(caller, project_id, task_id, assigned_to, status, other) ==
    LET result == update_task_outcome(caller, project_id, task_id, assigned_to,
                                      status, other)
        updated == [tasks EXCEPT
                       ![task_id].assigned_to =
                           IF assigned_to = Unset THEN @ ELSE assigned_to,
                       ![task_id].status =
                           IF status = Unset THEN @ ELSE status]
    IN
    /\ last' = Request("update_task", caller, project_id, None, task_id, result)
    /\ IF result = OK
       THEN /\ tasks' = updated
            /\ projects' = IF status # Unset
                           THEN calculate_project_progress(updated, project_id)
                           ELSE projects
       ELSE UNCHANGED <<tasks, projects>>
    /\ UNCHANGED <<team_members, nextProject, nextMember, nextTask, call,
                 inflight, sessions>>

\* Mutant: only the role's permission counts, not being the assignee.
update_task_status_outcome_RoleOnly(caller, project_id, task_id) ==
    IF verify_project_access(project_id, caller) # OK
    THEN verify_project_access(project_id, caller)
    ELSE IF task_lookup(project_id, task_id) # OK THEN TaskNotFound
    ELSE IF ~check_permission(get_user_role_in_project(caller, project_id),
                              "update_task_status")
    THEN InsufficientPermissions
    ELSE OK

update_task_status_outcome(caller, project_id, task_id) ==
    IF verify_project_access(project_id, caller) # OK
    THEN verify_project_access(project_id, caller)
    ELSE IF task_lookup(project_id, task_id) # OK THEN TaskNotFound
    ELSE LET user_role == get_user_role_in_project(caller, project_id)
             task_owner == tasks[task_id].assigned_to
             has_permission == check_permission(user_role, "update_task_status")
             is_assigned == task_owner = caller
         IN  IF ~(has_permission \/ is_assigned)
             THEN InsufficientPermissions
             ELSE OK

update_task_status(caller, project_id, task_id, status) ==
    LET result == update_task_status_outcome(caller, project_id, task_id)
        updated == [tasks EXCEPT ![task_id].status = status]
    IN
    /\ last' = Request("update_task_status", caller, project_id, None, task_id,
                       result)
    /\ IF result = OK
       THEN /\ tasks' = updated
            /\ projects' = calculate_project_progress(updated, project_id)
       ELSE UNCHANGED <<tasks, projects>>
    /\ UNCHANGED <<team_members, nextProject, nextMember, nextTask, call,
                 inflight, sessions>>

delete_task_outcome(caller, project_id, task_id) ==
    IF verify_project_access(project_id, caller) # OK
    THEN verify_project_access(project_id, caller)
    ELSE IF task_lookup(project_id, task_id) # OK THEN TaskNotFound
    ELSE IF ~can_delete_task(caller, project_id, tasks[task_id].assigned_to)
    THEN InsufficientPermissions
    ELSE OK

delete_task(caller, project_id, task_id) ==
    LET result == delete_task_outcome(caller, project_id, task_id) IN
    /\ last' = Request("delete_task", caller, project_id, None, task_id, result)
    /\ IF result = OK
       THEN tasks' = [t \in DOMAIN tasks \ {task_id} |-> tasks[t]]
       ELSE UNCHANGED tasks
    /\ UNCHANGED <<projects, team_members, nextProject, nextMember, nextTask, call,
                 inflight, sessions>>

(***************************************************************************)
(* routes/analytics.py and utils/middleware.py: access checks              *)
(***************************************************************************)
verify_analytics_access(project_id, username) ==
    IF ~ProjectExists(project_id) THEN ProjectNotFound
    ELSE IF ~check_permission(get_user_role_in_project(username, project_id),
                              "view_analytics")
    THEN InsufficientPermissions
    ELSE OK

\* The dependency require_role(required_roles) for a request of caller on
\* project_id.
require_role(required_roles, caller, project_id) ==
    LET user_role == get_user_role_in_project(caller, project_id) IN
    IF user_role = None \/ user_role = "" \/ user_role \notin required_roles
    THEN InsufficientPermissions
    ELSE OK

require_project_owner(caller, project_id) ==
    require_role({OWNER}, caller, project_id)

require_project_member(caller, project_id) ==
    IF ~is_project_member(caller, project_id) THEN UnauthorizedAccess ELSE OK

require_permission(permission, caller, project_id) ==
    IF ~check_permission(get_user_role_in_project(caller, project_id), permission)
    THEN InsufficientPermissions
    ELSE OK

(***************************************************************************)
(* utils/supabase_auth.py, utils/middleware.py and routes/auth.py:         *)
(* users, tokens and the authentication of a request                       *)
(***************************************************************************)
\* Largest number of tokens handed out.
MaxTokens == 2

\* generate_token() returns secrets.token_urlsafe(32), 256 random bits: a
\* token handed out is one never handed out before.  Tokens are numbered in
\* the order they are generated; 0 is no token.
Tokens == 1..MaxTokens

Passwords == {"password123", "hunter2"}
Emails == {"a@example.com", "b@example.com"}
\* secrets.token_hex(16)
Salts == {"5f2a", "c81d"}

\* salt:sha256(password + salt).  The digest stands for its preimage.
hash_password(password, salt) ==
    [salt |-> salt, password_hash |-> <<password, salt>>]

verify_password(password, hashed_password) ==
    <<password, hashed_password.salt>> = hashed_password.password_hash

\* HTTP 401 and 400
Unauthorized == "Unauthorized"
BadRequest == "BadRequest"

\* An Authorization header: missing tells that the header is absent or the
\* empty string, parts is authorization.split(), the scheme followed by the
\* tokens.
Header(missing, scheme, tokens) ==
    [missing |-> missing, scheme |-> scheme, tokens |-> tokens]

NoHeader == Header(TRUE, None, <<>>)

\* The headers of the requests: none, only blanks, one word, a scheme and a
\* token in several spellings of Bearer and in another scheme, three words.
\* The tokens are those handed out and one more, never handed out.
HeaderInputs ==
    {NoHeader, Header(FALSE, None, <<>>)}
    \cup {Header(FALSE, "Bearer", <<>>)}
    \cup {Header(FALSE, sch, <<t>>) :
            sch \in {"Bearer", "bearer", "BEARER", "Basic"},
            t \in 1..(MaxTokens + 1)}
    \cup {Header(FALSE, "Bearer", <<t, t>>) : t \in Tokens}

\* Number of words of the header.
parts_len(authorization) ==
    (IF authorization.scheme = None THEN 0 ELSE 1) + Len(authorization.tokens)

\* What get_token_from_header returns: raised tells that it raised the 401,
\* token is parts[1] otherwise.
get_token_from_header(authorization) ==
    IF authorization.missing                           \* if not authorization
    THEN [raised |-> TRUE, token |-> 0]
    ELSE IF parts_len(authorization) # 2
            \/ lower(authorization.scheme) # "bearer"
    THEN [raised |-> TRUE, token |-> 0]
    ELSE [raised |-> FALSE, token |-> authorization.tokens[1]]

\* verify_token(token): the username of the user of the token, None when the
\* token or its user is not found.
verify_token(token) ==
    LET token_result == {r \in auth_tokens : r.token = token} IN
    IF token_result = {} THEN None
    ELSE LET username == first(token_result).username
             user_result == {u \in users : u.username = username}
         IN  IF user_result = {} THEN None ELSE username

\* get_current_user and verify_auth_token: the username of the current user,
\* or Unauthorized when the 401 is raised.
get_current_user(authorization) ==
    LET t == get_token_from_header(authorization) IN
    IF t.raised THEN Unauthorized
    ELSE IF verify_token(t.token) = None THEN Unauthorized
    ELSE verify_token(t.token)

\* A request of the authentication routes and of the routes behind
\* get_current_user: the token is the one returned or the one sent.
AuthRequest(op, username, token, result) ==
    [op |-> op, caller |-> username, project_id |-> 0, username |-> None,
     role |-> None, task_id |-> 0, token |-> token, result |-> result]

\* POST /auth/signup
signup_outcome(username, email) ==
    IF \E u \in users : u.username = username THEN BadRequest
    ELSE IF \E u \in users : u.email = email THEN BadRequest
    ELSE OK

signup_endpoint(username, password, email, salt) ==
    LET result == signup_outcome(username, email) IN
    /\ result = OK => nextToken <= MaxTokens
    /\ last' = AuthRequest("signup", username,
                           IF result = OK THEN nextToken ELSE 0, result)
    /\ IF result = OK
       THEN /\ users' = users \cup
                    {[username |-> username,
                      password |-> hash_password(password, salt),
                      email |-> email]}
            /\ auth_tokens' = auth_tokens \cup
                    {[token |-> nextToken, username |-> username]}
            /\ nextToken' = nextToken + 1
       ELSE UNCHANGED <<users, auth_tokens, nextToken>>
    /\ UNCHANGED <<store, call, inflight>>

\* POST /auth/login
login_outcome(username, password) ==
    LET result == {u \in users : u.username = username} IN
    IF result = {} THEN Unauthorized
    ELSE IF ~verify_password(password, first(result).password) THEN Unauthorized
    ELSE OK

login_endpoint(username, password) ==
    LET result == login_outcome(username, password) IN
    /\ result = OK => nextToken <= MaxTokens
    /\ last' = AuthRequest("login", username,
                           IF result = OK THEN nextToken ELSE 0, result)
    /\ IF result = OK
       THEN /\ auth_tokens' = auth_tokens \cup
                    {[token |-> nextToken, username |-> username]}
            /\ nextToken' = nextToken + 1
       ELSE UNCHANGED <<auth_tokens, nextToken>>
    /\ UNCHANGED <<store, call, inflight, users>>

\* Mutant: the logout removes every token of the user of the token.
logout_AllOfUser(token) ==
    {r \in auth_tokens :
        \A x \in auth_tokens : x.token = token => r.username # x.username}

\* logout(token): the auth_tokens table after the delete of the rows whose
\* token is the one given.
logout(token) == {r \in auth_tokens : r.token # token}

\* POST /auth/logout
logout_endpoint(authorization) ==
    LET t == get_token_from_header(authorization)
        result == IF t.raised THEN Unauthorized
                  ELSE IF logout(t.token) = auth_tokens       \* not result.data
                  THEN Unauthorized
                  ELSE OK
    IN
    /\ last' = AuthRequest("logout", None, t.token, result)
    /\ auth_tokens' = IF t.raised THEN auth_tokens ELSE logout(t.token)
    /\ UNCHANGED <<store, call, inflight, users, nextToken>>

\* The outcome of a route behind get_current_user or verify_auth_token, which
\* runs when the dependency returns a user.
protected_outcome(authorization) ==
    IF get_current_user(authorization) = Unauthorized THEN Unauthorized ELSE OK

\* GET /auth/verify
verify_endpoint(authorization) ==
    LET t == get_token_from_header(authorization)
        current_user == get_current_user(authorization)
    IN
    /\ last' = AuthRequest("verify",
                           IF current_user = Unauthorized THEN None
                           ELSE current_user,
                           t.token, protected_outcome(authorization))
    /\ UNCHANGED <<store, call, inflight, sessions>>

\* GET /projects
get_all_projects(authorization) ==
    LET t == get_token_from_header(authorization)
        current_user == get_current_user(authorization)
    IN
    /\ last' = AuthRequest("get_all_projects",
                           IF current_user = Unauthorized THEN None
                           ELSE current_user,
                           t.token, protected_outcome(authorization))
    /\ UNCHANGED <<store, call, inflight, sessions>>

(***************************************************************************)
(* The routes that only read.  A read leaves the store as it is; what the  *)
(* model keeps of it is who asked for what and the outcome.                *)
(***************************************************************************)
\* GET /projects/{project_id}/tasks
get_all_tasks_outcome(caller, project_id) ==
    IF verify_project_access(project_id, caller) # OK
    THEN verify_project_access(project_id, caller)
    ELSE IF ~check_permission(get_user_role_in_project(caller, project_id),
                              "view_task")
    THEN InsufficientPermissions
    ELSE OK

get_all_tasks(caller, project_id) ==
    /\ last' = Request("get_all_tasks", caller, project_id, None, 0,
                        get_all_tasks_outcome(caller, project_id))
    /\ UNCHANGED <<store, call, inflight, sessions>>

\* GET /projects/{project_id}
get_project(caller, project_id) ==
    /\ last' = Request("get_project", caller, project_id, None, 0,
                        check_project_access(project_id, caller, FALSE))
    /\ UNCHANGED <<store, call, inflight, sessions>>

\* GET /projects/{project_id}/team
projects_get_team_members(caller, project_id) ==
    /\ last' = Request("projects.get_team_members", caller, project_id, None, 0,
                        check_project_access(project_id, caller, FALSE))
    /\ UNCHANGED <<store, call, inflight, sessions>>

\* GET /projects/{project_id}/stats
get_project_stats(caller, project_id) ==
    /\ last' = Request("get_project_stats", caller, project_id, None, 0,
                        check_project_access(project_id, caller, FALSE))
    /\ UNCHANGED <<store, call, inflight, sessions>>

\* The check the reading routes of routes/roles.py start with.
member_read_access(caller, project_id) ==
    IF verify_project_exists(project_id) # OK THEN ProjectNotFound
    ELSE IF ~is_project_member(caller, project_id) THEN UnauthorizedAccess
    ELSE OK

\* GET /projects/{project_id}/members
roles_get_team_members(caller, project_id) ==
    /\ last' = Request("roles.get_team_members", caller, project_id, None, 0,
                        member_read_access(caller, project_id))
    /\ UNCHANGED <<store, call, inflight, sessions>>

\* GET /projects/{project_id}/members/{username}
get_team_member_outcome(caller, project_id, username) ==
    IF member_read_access(caller, project_id) # OK
    THEN member_read_access(caller, project_id)
    ELSE IF select_members(project_id, username) = {} THEN TeamMemberNotFound
    ELSE OK

get_team_member(caller, project_id, username) ==
    /\ last' = Request("get_team_member", caller, project_id, username, 0,
                        get_team_member_outcome(caller, project_id, username))
    /\ UNCHANGED <<store, call, inflight, sessions>>

\* GET /projects/{project_id}/members/{username}/permissions
get_member_permissions_outcome(caller, project_id, username) ==
    IF member_read_access(caller, project_id) # OK
    THEN member_read_access(caller, project_id)
    ELSE IF ~truthy(get_user_role_in_project(username, project_id))
    THEN TeamMemberNotFound
    ELSE OK

get_member_permissions(caller, project_id, username) ==
    /\ last' = Request("get_member_permissions", caller, project_id, username, 0,
                        get_member_permissions_outcome(caller, project_id, username))
    /\ UNCHANGED <<store, call, inflight, sessions>>

\* GET /projects/{project_id}/analytics
get_project_analytics(caller, project_id) ==
    /\ last' = Request("get_project_analytics", caller, project_id, None, 0,
                        verify_analytics_access(project_id, caller))
    /\ UNCHANGED <<store, call, inflight, sessions>>

\* GET /projects/{project_id}/analytics/timeline
get_analytics_timeline(caller, project_id) ==
    /\ last' = Request("get_analytics_timeline", caller, project_id, None, 0,
                        verify_analytics_access(project_id, caller))
    /\ UNCHANGED <<store, call, inflight, sessions>>

\* GET /projects/{project_id}/analytics/member/{username}
get_member_analytics_endpoint_outcome(caller, project_id, username) ==
    IF ~ProjectExists(project_id) THEN ProjectNotFound
    ELSE LET user_role == get_user_role_in_project(caller, project_id)
             is_owner_or_manager == check_permission(user_role, "view_analytics")
             is_self == caller = username
         IN  IF ~(is_owner_or_manager \/ is_self)
             THEN InsufficientPermissions
             ELSE OK

get_member_analytics_endpoint(caller, project_id, username) ==
    /\ last' = Request("get_member_analytics", caller, project_id, username, 0,
                        get_member_analytics_endpoint_outcome(caller, project_id, username))
    /\ UNCHANGED <<store, call, inflight, sessions>>

(***************************************************************************)
(* The backend: requests are handled one at a time.                        *)
(***************************************************************************)
Assignees == Users \cup {None}

\* Bodies of PUT /projects/{id}: progress is {} when unset, else {value};
\* other tells whether any of name, description, status is set.  The other
\* fields are not part of the state, so they are enumerated only for the body
\* that sets nothing else.
ProjectUpdate ==
    {b \in [progress : {{}} \cup {{x} : x \in ProgressInputs}, other : BOOLEAN] :
        b.other => b.progress = {}}

\* Bodies of PUT /projects/{id}/tasks/{task_id}: assigned_to and status are
\* Unset when left out; other tells whether any of title, description,
\* priority is set, enumerated as for ProjectUpdate.
TaskUpdate ==
    {b \in [assigned_to : Assignees \cup {Unset},
            status : TaskStatus \cup {Unset}, other : BOOLEAN] :
        b.other => (b.assigned_to = Unset /\ b.status = Unset)}

Next ==
    \/ \E u \in Users, g \in ProgressInputs : create_project(u, g)
    \/ \E u \in Users, p \in ProjectIds, b \in ProjectUpdate :
          update_project(u, p, b.progress, b.other)
    \/ \E u \in Users, p \in ProjectIds : delete_project(u, p)
    \/ \E u \in Users, p \in ProjectIds, n \in Users, r \in RoleRequests :
          projects_add_team_member(u, p, n, r)
    \/ \E u \in Users, p \in ProjectIds, m \in MemberIds :
          projects_remove_team_member(u, p, m)
    \/ \E u \in Users, p \in ProjectIds, n \in Users, r \in RoleRequests :
          roles_add_team_member(u, p, n, r)
    \/ \E u \in Users, p \in ProjectIds, n \in Users, r \in RoleRequests :
          update_member_role(u, p, n, r)
    \/ \E u \in Users, p \in ProjectIds, n \in Users :
          roles_remove_team_member(u, p, n)
    \/ \E u \in Users, p \in ProjectIds, a \in Assignees, s \in TaskStatus :
          create_task(u, p, a, s)
    \/ \E u \in Users, p \in ProjectIds, t \in TaskIds, b \in TaskUpdate :
          update_task(u, p, t, b.assigned_to, b.status, b.other)
    \/ \E u \in Users, p \in ProjectIds, t \in TaskIds, s \in TaskStatus :
          update_task_status(u, p, t, s)
    \/ \E u \in Users, p \in ProjectIds, t \in TaskIds : delete_task(u, p, t)

Spec == Init /\ [][Next]_vars

(***************************************************************************)
(* check_permission as a pure function: a call with any role string and    *)
(* any permission, and its return.                                         *)
(***************************************************************************)
InitPerm ==
    /\ projects = <<>>
    /\ team_members = {}
    /\ tasks = <<>>
    /\ nextProject = 1
    /\ nextMember = 1
    /\ nextTask = 1
    /\ last = NoRequest
    /\ call \in [pc : {"called"}, user_role : RoleInputs,
                 permission : Permission, ret : {FALSE}]
    /\ inflight = <<>>
    /\ users = {}
    /\ auth_tokens = {}
    /\ nextToken = 1

check_permission_call ==
    /\ call.pc = "called"
    /\ call' = [call EXCEPT !.pc = "returned",
                            !.ret = check_permission(call.user_role,
                                                     call.permission)]
    /\ UNCHANGED <<store, last, inflight, sessions>>

NextPerm == check_permission_call

SpecPerm == InitPerm /\ [][NextPerm]_vars

(***************************************************************************)
(* calculate_project_progress on its own: project 1 holds any number of    *)
(* tasks in any mixture of statuses (created with these statuses, so the   *)
(* stored progress is still 0); the function is called, and called again.  *)
(***************************************************************************)
\* The tasks of project 1: total tasks, the first completed of them
\* completed, the next in_progress of them in progress, the rest to do.
task_set(total, completed, in_progress) ==
    [id \in 1..total |->
        [project_id |-> 1, assigned_to |-> None,
         status |-> IF id <= completed THEN "completed"
                    ELSE IF id <= completed + in_progress THEN "in_progress"
                    ELSE "todo"]]

InitProgress ==
    \E total \in 0..MaxCount : \E completed \in 0..total :
    \E in_progress \in {0, (total - completed) \div 2, total - completed} :
        /\ projects = (1 :> [owner_id |-> "alice", progress |-> 0])
        /\ team_members = {}
        /\ tasks = task_set(total, completed, in_progress)
        /\ nextProject = 2
        /\ nextMember = 1
        /\ nextTask = total + 1
        /\ last = NoRequest
        /\ call = [pc |-> "called", project_id |-> 1, ret |-> 0]
        /\ inflight = <<>>
        /\ users = {}
        /\ auth_tokens = {}
        /\ nextToken = 1

calculate_project_progress_call ==
    /\ call.pc \in {"called", "returned"}
    /\ call' = [call EXCEPT
                  !.pc = IF call.pc = "called" THEN "returned" ELSE "recomputed",
                  !.ret = calculate_project_progress_return(tasks, call.project_id)]
    /\ projects' = calculate_project_progress(tasks, call.project_id)
    /\ UNCHANGED <<team_members, tasks, nextProject, nextMember, nextTask, last,
                   inflight, sessions>>

NextProgress == calculate_project_progress_call

SpecProgress == InitProgress /\ [][NextProgress]_vars

(***************************************************************************)
(* calculate_project_progress called on a project whose stored progress    *)
(* is the value of an earlier call: 0, 50 or 100, whatever the tasks are   *)
(* now (tasks are created and deleted without a call).                     *)
(***************************************************************************)
StoredBefore == {0, 50, 100}

InitStored ==
    \E total \in 0..MaxCount : \E completed \in 0..total :
    \E stored \in StoredBefore :
        /\ projects = (1 :> [owner_id |-> "alice", progress |-> stored])
        /\ team_members = {}
        /\ tasks = task_set(total, completed, 0)
        /\ nextProject = 2
        /\ nextMember = 1
        /\ nextTask = total + 1
        /\ last = NoRequest
        /\ call = [pc |-> "called", project_id |-> 1, ret |-> 0]
        /\ inflight = <<>>
        /\ users = {}
        /\ auth_tokens = {}
        /\ nextToken = 1

SpecStored == InitStored /\ [][NextProgress]_vars

(***************************************************************************)
(* Concurrent update_task_status requests on project 1.  The handler has   *)
(* no lock and no transaction: the update of the task, the read of the     *)
(* project's tasks and the write of the progress are three separate calls  *)
(* of the store, and the calls of different requests interleave.  The      *)
(* reads that the handler's checks make come with the first step: no       *)
(* request of this specification changes what they read.                   *)
(***************************************************************************)
MaxRequests == 2
RequestIds == 1..MaxRequests

\* Mutant: the write stores the progress of the tasks as they are at the
\* time of the write, not the value computed from the earlier read.
written_progress_Fresh(r) ==
    calculate_project_progress_return(tasks, inflight[r].project_id)

\* The value calculate_project_progress writes: the one it computed from the
\* tasks it read.
written_progress(r) == inflight[r].progress

InitRace ==
    \E st \in [TaskIds -> TaskStatus] :
        LET tbl == [t \in TaskIds |-> [project_id |-> 1, assigned_to |-> None,
                                       status |-> st[t]]] IN
        /\ tasks = tbl
        /\ projects = (1 :> [owner_id |-> "alice",
                             progress |-> calculate_project_progress_return(tbl, 1)])
        /\ team_members = {}
        /\ nextProject = 2
        /\ nextMember = 1
        /\ nextTask = MaxTasks + 1
        /\ last = NoRequest
        /\ call = NoCall
        /\ inflight \in [RequestIds ->
                            [pc : {"start"}, caller : Users, project_id : {1},
                             task_id : TaskIds, status : TaskStatus,
                             result : {None}, progress : {0}, wrote : {0}]]
        /\ users = {}
        /\ auth_tokens = {}
        /\ nextToken = 1

\* The checks of update_task_status and db.update("tasks", task_id, {status})
race_update_task(r) ==
    LET q == inflight[r]
        result == update_task_status_outcome(q.caller, q.project_id, q.task_id)
    IN
    /\ q.pc = "start"
    /\ IF result = OK
       THEN /\ tasks' = [tasks EXCEPT ![q.task_id].status = q.status]
            /\ inflight' = [inflight EXCEPT ![r].pc = "updated"]
            /\ UNCHANGED last
       ELSE /\ inflight' = [inflight EXCEPT ![r].pc = "done",
                                            ![r].result = result]
            /\ last' = Request("update_task_status", q.caller, q.project_id,
                               None, q.task_id, result)
            /\ UNCHANGED tasks
    /\ UNCHANGED <<projects, team_members, nextProject, nextMember, nextTask,
                   call, sessions>>

\* calculate_project_progress: db.select_where("tasks", "project_id", ...) and
\* the percentage of the rows read
race_read_tasks(r) ==
    LET q == inflight[r] IN
    /\ q.pc = "updated"
    /\ IF tasks_of(q.project_id) = {}
       THEN /\ inflight' = [inflight EXCEPT ![r].pc = "done", ![r].result = OK]
            /\ last' = Request("update_task_status", q.caller, q.project_id,
                               None, q.task_id, OK)
       ELSE /\ inflight' = [inflight EXCEPT
                    ![r].pc = "computed",
                    ![r].progress =
                        calculate_project_progress_return(tasks, q.project_id)]
            /\ UNCHANGED last
    /\ UNCHANGED <<store, call, sessions>>

\* calculate_project_progress: db.update("projects", project_id, {progress}),
\* and the handler returns.  wrote numbers the writes in their order.
race_write_progress(r) ==
    LET q == inflight[r] IN
    /\ q.pc = "computed"
    /\ projects' = [projects EXCEPT ![q.project_id].progress = written_progress(r)]
    /\ inflight' = [inflight EXCEPT
            ![r].pc = "done",
            ![r].result = OK,
            ![r].wrote = 1 + Cardinality({x \in RequestIds : inflight[x].wrote > 0})]
    /\ last' = Request("update_task_status", q.caller, q.project_id, None,
                       q.task_id, OK)
    /\ UNCHANGED <<team_members, tasks, nextProject, nextMember, nextTask, call,
                   sessions>>

NextRace ==
    \/ \E r \in RequestIds : race_update_task(r)
    \/ \E r \in RequestIds : race_read_tasks(r)
    \/ \E r \in RequestIds : race_write_progress(r)

SpecRace == InitRace /\ [][NextRace]_vars

(***************************************************************************)
(* The task routes over two projects: project 1 of alice with task 1,      *)
(* project 2 of bob with task 2, and each user with any role or none in    *)
(* the other's project.  Every task route is called with every pair of a   *)
(* project id and a task id.                                               *)
(***************************************************************************)
CrossIds == {1, 2}

\* The team_members table in which alice has role a in project 2 and bob has
\* role b in project 1 (None: no row).
cross_members(a, b) ==
    (IF a = None THEN {}
     ELSE {[id |-> 1, project_id |-> 2, username |-> "alice", role |-> a]})
    \cup
    (IF b = None THEN {}
     ELSE {[id |-> 2, project_id |-> 1, username |-> "bob", role |-> b]})

InitCross ==
    \E a \in TeamMemberRole \cup {None}, b \in TeamMemberRole \cup {None} :
        /\ projects = (1 :> [owner_id |-> "alice", progress |-> 0]
                       @@ 2 :> [owner_id |-> "bob", progress |-> 0])
        /\ team_members = cross_members(a, b)
        /\ tasks = (1 :> [project_id |-> 1, assigned_to |-> None, status |-> "todo"]
                    @@ 2 :> [project_id |-> 2, assigned_to |-> None, status |-> "todo"])
        /\ nextProject = 3
        /\ nextMember = 3
        /\ nextTask = 3
        /\ last = NoRequest
        /\ call = NoCall
        /\ inflight = <<>>
        /\ users = {}
        /\ auth_tokens = {}
        /\ nextToken = 1

\* Bodies of update_task that leave the assignee as it is.
StatusUpdate == {b \in TaskUpdate : b.assigned_to = Unset}

NextCross ==
    \/ \E u \in Users, p \in CrossIds, t \in CrossIds : get_task(u, p, t)
    \/ \E u \in Users, p \in CrossIds, t \in CrossIds, b \in StatusUpdate :
          update_task(u, p, t, b.assigned_to, b.status, b.other)
    \/ \E u \in Users, p \in CrossIds, t \in CrossIds, s \in TaskStatus :
          update_task_status(u, p, t, s)
    \/ \E u \in Users, p \in CrossIds, t \in CrossIds : delete_task(u, p, t)

SpecCross == InitCross /\ [][NextCross]_vars

(***************************************************************************)
(* The reading routes, on the stores that creating a project, adding and   *)
(* removing a member and creating a task lead to.                          *)
(***************************************************************************)
NextAccess ==
    \/ \E u \in Users : create_project(u, 0)
    \/ \E u \in Users, p \in ProjectIds, n \in Users, r \in TeamMemberRole :
          roles_add_team_member(u, p, n, r)
    \/ \E u \in Users, p \in ProjectIds, n \in Users :
          roles_remove_team_member(u, p, n)
    \/ \E u \in Users, p \in ProjectIds, a \in Assignees :
          create_task(u, p, a, "todo")
    \/ \E u \in Users, p \in ProjectIds, t \in TaskIds : get_task(u, p, t)
    \/ \E u \in Users, p \in ProjectIds : get_all_tasks(u, p)
    \/ \E u \in Users, p \in ProjectIds : get_project(u, p)
    \/ \E u \in Users, p \in ProjectIds : projects_get_team_members(u, p)
    \/ \E u \in Users, p \in ProjectIds : get_project_stats(u, p)
    \/ \E u \in Users, p \in ProjectIds : roles_get_team_members(u, p)
    \/ \E u \in Users, p \in ProjectIds, n \in Users : get_team_member(u, p, n)
    \/ \E u \in Users, p \in ProjectIds, n \in Users :
          get_member_permissions(u, p, n)
    \/ \E u \in Users, p \in ProjectIds : get_project_analytics(u, p)
    \/ \E u \in Users, p \in ProjectIds : get_analytics_timeline(u, p)
    \/ \E u \in Users, p \in ProjectIds, n \in Users :
          get_member_analytics_endpoint(u, p, n)

SpecAccess == Init /\ [][NextAccess]_vars

(***************************************************************************)
(* The team-member routes over two projects: project 1 of alice, project 2 *)
(* of bob, each user with any role or none in the other's project, and in  *)
(* each project a task assigned to the user who does not own it (a task    *)
(* keeps its assignee when the assignee leaves the team).  Every route is  *)
(* called with every project id, and the removal by row id with every row  *)
(* id.                                                                      *)
(***************************************************************************)
InitTeam ==
    \E a \in TeamMemberRole \cup {None}, b \in TeamMemberRole \cup {None} :
        /\ projects = (1 :> [owner_id |-> "alice", progress |-> 0]
                       @@ 2 :> [owner_id |-> "bob", progress |-> 0])
        /\ team_members = cross_members(a, b)
        /\ tasks = (1 :> [project_id |-> 1, assigned_to |-> "bob", status |-> "todo"]
                    @@ 2 :> [project_id |-> 2, assigned_to |-> "alice", status |-> "todo"])
        /\ nextProject = 3
        /\ nextMember = 3
        /\ nextTask = 3
        /\ last = NoRequest
        /\ call = NoCall
        /\ inflight = <<>>
        /\ users = {}
        /\ auth_tokens = {}
        /\ nextToken = 1

NextTeam ==
    \/ \E u \in Users, p \in CrossIds, n \in Users, r \in RoleRequests :
          projects_add_team_member(u, p, n, r)
    \/ \E u \in Users, p \in CrossIds, m \in CrossIds :
          projects_remove_team_member(u, p, m)
    \/ \E u \in Users, p \in CrossIds, n \in Users, r \in RoleRequests :
          roles_add_team_member(u, p, n, r)
    \/ \E u \in Users, p \in CrossIds, n \in Users, r \in RoleRequests :
          update_member_role(u, p, n, r)
    \/ \E u \in Users, p \in CrossIds, n \in Users :
          roles_remove_team_member(u, p, n)

SpecTeam == InitTeam /\ [][NextTeam]_vars

(***************************************************************************)
(* Task assignment in project 1 of alice, with three users: bob and carol  *)
(* each hold any role or none.  Tasks are created and updated with every   *)
(* assignee, and members are removed, which leaves their tasks assigned to *)
(* them.                                                                    *)
(***************************************************************************)
AssignUsers == Users \cup {"carol"}

AssignAssignees == AssignUsers \cup {None}

\* The team_members table in which bob has role b and carol role c in
\* project 1 (None: no row).
assign_members(b, c) ==
    (IF b = None THEN {}
     ELSE {[id |-> 1, project_id |-> 1, username |-> "bob", role |-> b]})
    \cup
    (IF c = None THEN {}
     ELSE {[id |-> 2, project_id |-> 1, username |-> "carol", role |-> c]})

InitAssign ==
    \E b \in TeamMemberRole \cup {None}, c \in TeamMemberRole \cup {None} :
        /\ projects = (1 :> [owner_id |-> "alice", progress |-> 0])
        /\ team_members = assign_members(b, c)
        /\ tasks = <<>>
        /\ nextProject = 2
        /\ nextMember = 3
        /\ nextTask = 1
        /\ last = NoRequest
        /\ call = NoCall
        /\ inflight = <<>>
        /\ users = {}
        /\ auth_tokens = {}
        /\ nextToken = 1

\* Bodies of update_task that name any assignee, with or without a status.
AssignUpdate ==
    {b \in [assigned_to : AssignAssignees \cup {Unset},
            status : {"completed", Unset}, other : BOOLEAN] :
        b.other => (b.assigned_to = Unset /\ b.status = Unset)}

NextAssign ==
    \/ \E u \in AssignUsers, p \in ProjectIds, a \in AssignAssignees :
          create_task(u, p, a, "todo")
    \/ \E u \in AssignUsers, p \in ProjectIds, t \in TaskIds, b \in AssignUpdate :
          update_task(u, p, t, b.assigned_to, b.status, b.other)
    \/ \E u \in AssignUsers, p \in ProjectIds, n \in AssignUsers :
          roles_remove_team_member(u, p, n)

SpecAssign == InitAssign /\ [][NextAssign]_vars

(***************************************************************************)
(* Authentication: users sign up, log in and log out, and requests with    *)
(* every header reach a route behind get_current_user.                     *)
(***************************************************************************)
NextAuth ==
    \/ \E u \in Users, pw \in Passwords, e \in Emails, salt \in Salts :
          signup_endpoint(u, pw, e, salt)
    \/ \E u \in Users, pw \in Passwords : login_endpoint(u, pw)
    \/ \E h \in HeaderInputs : logout_endpoint(h)
    \/ \E h \in HeaderInputs : verify_endpoint(h)
    \/ \E h \in HeaderInputs : get_all_projects(h)

SpecAuth == Init /\ [][NextAuth]_vars

(***************************************************************************)
(* get_project_timeline on its own: project 1 holds any number of tasks,   *)
(* any number of them completed, and the function is called for the last   *)
(* days days at a time around the end of a month or of a year.             *)
(***************************************************************************)
\* Largest number of days to look back.
MaxDays == 3

\* What datetime.now() returns: the first of March of a leap year and of a
\* common year, and the first and the second of January.
Nows ==
    {[year |-> 2024, month |-> 3, day |-> 1, second |-> 36000],
     [year |-> 2025, month |-> 3, day |-> 1, second |-> 36000],
     [year |-> 2025, month |-> 1, day |-> 2, second |-> 0]}

\* The tasks of project 1 with their updated_at: total tasks, the first
\* completed of them completed, one after the other on the day of now and on
\* the lag days before it; the rest to do, updated on the day of now.
timeline_tasks(total, completed, now, lag) ==
    [id \in 1..total |->
        [project_id |-> 1, assigned_to |-> None,
         status |-> IF id <= completed THEN "completed" ELSE "todo",
         updated_at |-> IF id <= completed
                        THEN minus_days(now, id % (lag + 1))
                        ELSE now]]

InitTimeline ==
    \E total \in 0..MaxCount : \E completed \in 0..total :
    \E now \in Nows, days \in 0..MaxDays, lag \in {0, MaxDays} :
        /\ projects = (1 :> [owner_id |-> "alice", progress |-> 0])
        /\ team_members = {}
        /\ tasks = timeline_tasks(total, completed, now, lag)
        /\ nextProject = 2
        /\ nextMember = 1
        /\ nextTask = total + 1
        /\ last = NoRequest
        /\ call = [pc |-> "called", project_id |-> 1, days |-> days,
                   now |-> now, ret |-> <<>>]
        /\ inflight = <<>>
        /\ users = {}
        /\ auth_tokens = {}
        /\ nextToken = 1

get_project_timeline_call ==
    /\ call.pc = "called"
    /\ call' = [call EXCEPT
                  !.pc = "returned",
                  !.ret = get_project_timeline(tasks, call.project_id,
                                               call.days, call.now)]
    /\ UNCHANGED <<store, last, inflight, sessions>>

NextTimeline == get_project_timeline_call

SpecTimeline == InitTimeline /\ [][NextTimeline]_vars

(***************************************************************************)
(* Concurrent add-member requests on project 1.  Both handlers read the    *)
(* rows of (project_id, username) and then insert or update in a second    *)
(* call of the store, with no lock and no transaction, and the calls of    *)
(* different requests interleave.  The reads that the handler's checks     *)
(* make come with the select: no request of this specification changes     *)
(* what they read.                                                         *)
(***************************************************************************)
DatabaseException == "DatabaseException"

\* The team_members table is declared unique on (project_id, username)
\* (sql/create_tables.sql, run by setup_database.py): TRUE when the store
\* refuses the row.
unique_violation(tbl, row) ==
    \E m \in tbl : m.project_id = row.project_id /\ m.username = row.username

\* Mutant: the insert stores the row without the store refusing any.
db_insert_NoRefusal(tbl, row) ==
    [raised |-> FALSE, table |-> tbl \cup {row}]

\* SupabaseDB.insert("team_members", row): the table after the call, and
\* whether DatabaseException was raised.
db_insert(tbl, row) ==
    IF unique_violation(tbl, row)
    THEN [raised |-> TRUE, table |-> tbl]
    ELSE [raised |-> FALSE, table |-> tbl \cup {row}]

AddRoutes == {"projects.add_team_member", "roles.add_team_member"}

add_team_member_outcome(q) ==
    IF q.op = "projects.add_team_member"
    THEN projects_add_team_member_outcome(q.caller, q.project_id, q.username, q.role)
    ELSE roles_add_team_member_outcome(q.caller, q.project_id, q.username, q.role)

InitMembers ==
    \E before \in {{}, {[id |-> 1, project_id |-> 1, username |-> "bob",
                         role |-> "viewer"]}} :
        /\ projects = (1 :> [owner_id |-> "alice", progress |-> 0])
        /\ team_members = before
        /\ tasks = <<>>
        /\ nextProject = 2
        /\ nextMember = Cardinality(before) + 1
        /\ nextTask = 1
        /\ last = NoRequest
        /\ call = NoCall
        /\ inflight \in [RequestIds ->
                            [pc : {"start"}, op : AddRoutes, caller : Users,
                             project_id : {1}, username : Users,
                             role : {"developer", "manager"},
                             result : {None}, existing : {{}}]]
        /\ users = {}
        /\ auth_tokens = {}
        /\ nextToken = 1

\* The checks of the handler and db.select_with_filters("team_members",
\* {project_id, username}).
race_select_members(r) ==
    LET q == inflight[r]
        result == add_team_member_outcome(q)
        existing == select_members(q.project_id, q.username)
    IN
    /\ q.pc = "start"
    /\ IF result # OK
       THEN /\ inflight' = [inflight EXCEPT ![r].pc = "done",
                                            ![r].result = result]
            /\ last' = MemberRequest(q.op, q.caller, q.project_id, q.username,
                                     q.role, result)
       ELSE /\ inflight' = [inflight EXCEPT
                    ![r].pc = IF existing = {} THEN "selected" ELSE "found",
                    ![r].existing = existing]
            /\ UNCHANGED last
    /\ UNCHANGED <<store, call, sessions>>

\* db.insert("team_members", {project_id, username, role}), and the handler
\* returns.
race_insert_member(r) ==
    LET q == inflight[r]
        inserted == db_insert(team_members,
                              [id |-> nextMember, project_id |-> q.project_id,
                               username |-> q.username, role |-> q.role])
        result == IF inserted.raised THEN DatabaseException ELSE OK
    IN
    /\ q.pc = "selected"
    /\ team_members' = inserted.table
    /\ nextMember' = IF inserted.raised THEN nextMember ELSE nextMember + 1
    /\ inflight' = [inflight EXCEPT ![r].pc = "done", ![r].result = result]
    /\ last' = MemberRequest(q.op, q.caller, q.project_id, q.username, q.role,
                             result)
    /\ UNCHANGED <<projects, tasks, nextProject, nextTask, call, sessions>>

\* routes/roles.py: db.update("team_members", existing_members[0]["id"],
\* {role}), and the handler returns.
race_update_member(r) ==
    LET q == inflight[r]
        id == first(q.existing).id
    IN
    /\ q.pc = "found"
    /\ team_members' = {IF m.id = id THEN [m EXCEPT !.role = q.role] ELSE m :
                           m \in team_members}
    /\ inflight' = [inflight EXCEPT ![r].pc = "done", ![r].result = OK]
    /\ last' = MemberRequest(q.op, q.caller, q.project_id, q.username, q.role,
                             OK)
    /\ UNCHANGED <<projects, tasks, nextProject, nextMember, nextTask, call,
                   sessions>>

NextMembers ==
    \/ \E r \in RequestIds : race_select_members(r)
    \/ \E r \in RequestIds : race_insert_member(r)
    \/ \E r \in RequestIds : race_update_member(r)

SpecMembers == InitMembers /\ [][NextMembers]_vars

(***************************************************************************)
(* Claims                                                                  *)
(***************************************************************************)

\* The role -> permission table of the specification, cell by cell.
SpecTable(r) ==
    CASE r = "owner" -> Permission
      [] r = "manager" ->
            {"edit_project", "view_project", "create_task", "edit_task",
             "delete_task", "view_task", "assign_task", "update_task_status",
             "add_member", "view_analytics"}
      [] r = "developer" ->
            {"view_project", "create_task", "view_task", "update_task_status"}
      [] r = "viewer" -> {"view_project", "view_task"}

\* C1: for each of the four roles and each of the 15 permissions,
\* check_permission returns true exactly in the cells the table marks.
C1_PermissionTable ==
    (call.pc = "returned" /\ call.user_role \in {"owner", "manager", "developer", "viewer"})
        => (call.ret <=> call.permission \in SpecTable(call.user_role))

\* C1 witness: the viewer was asked for create_task and got false.
C1_Witness ==
    /\ call.pc = "returned"
    /\ call.user_role = "viewer"
    /\ call.permission = "create_task"
    /\ call.ret = FALSE

\* C2: in every reachable state the owner of every existing project resolves
\* to OWNER, whatever rows team_members holds.
C2_OwnerResolvesToOwner ==
    \A p \in DOMAIN projects :
        get_user_role_in_project(projects[p].owner_id, p) = OWNER

\* C2 witness: team_members holds a row for the owner with a lower role.
C2_Witness ==
    \E p \in DOMAIN projects : \E m \in team_members :
        /\ m.project_id = p
        /\ m.username = projects[p].owner_id
        /\ m.role \in {MANAGER, DEVELOPER, VIEWER}

\* C3, the rule: can_edit_task is true for OWNER and MANAGER whatever the
\* assignee, for DEVELOPER exactly when the assignee is the user, and false
\* for VIEWER and for a user without role.
C3_Rule ==
    \A u \in Users, p \in DOMAIN projects, a \in Assignees :
        LET role == get_user_role_in_project(u, p) IN
        can_edit_task(u, p, a) <=>
            \/ role \in {OWNER, MANAGER}
            \/ (role = DEVELOPER /\ a = u)

\* C3, the route: update_task changes a task only when can_edit_task is true
\* of the caller and the task's assignee before the request.
C3_Step ==
    (last'.op = "update_task" /\ tasks' # tasks)
        => can_edit_task(last'.caller, last'.project_id,
                         tasks[last'.task_id].assigned_to)

\* C3: the rule holds in every state and update_task respects it.
C3_EditRule == [] C3_Rule /\ [][C3_Step]_vars

\* C3 witness: a developer has updated the task assigned to them.
C3_Witness ==
    /\ last.op = "update_task"
    /\ last.result = OK
    /\ get_user_role_in_project(last.caller, last.project_id) = DEVELOPER
    /\ tasks[last.task_id].assigned_to = last.caller

\* The task named by the request exists in the named project.
TaskInProject(project_id, task_id) ==
    /\ ProjectExists(project_id)
    /\ TaskExists(task_id)
    /\ tasks[task_id].project_id = project_id

\* The role holds update_task_status, or the caller is the assignee.
StatusRule(caller, project_id, task_id) ==
    \/ check_permission(get_user_role_in_project(caller, project_id),
                        "update_task_status")
    \/ tasks[task_id].assigned_to = caller

\* C4 as claimed: on a task of the named project, update_task_status is
\* allowed whenever the role holds the permission or the caller is the
\* assignee, and is refused with InsufficientPermissions, the status
\* unchanged, otherwise.
C4_AsClaimed_Step ==
    (last'.op = "update_task_status"
     /\ TaskInProject(last'.project_id, last'.task_id))
        => IF StatusRule(last'.caller, last'.project_id, last'.task_id)
           THEN last'.result = OK
           ELSE /\ last'.result = InsufficientPermissions
                /\ tasks' = tasks

C4_AsClaimed == [][C4_AsClaimed_Step]_vars

\* C4 amended: the same for a caller who is the owner or a team member of
\* the project; any other caller is refused with UnauthorizedAccess, the
\* task unchanged, also when the task is still assigned to them.
C4_Step ==
    (last'.op = "update_task_status"
     /\ TaskInProject(last'.project_id, last'.task_id))
        => IF ~is_project_member(last'.caller, last'.project_id)
           THEN last'.result = UnauthorizedAccess /\ tasks' = tasks
           ELSE IF StatusRule(last'.caller, last'.project_id, last'.task_id)
           THEN last'.result = OK
           ELSE /\ last'.result = InsufficientPermissions
                /\ tasks' = tasks

C4_StatusUpdateRule == [][C4_Step]_vars

\* C4 witness: a viewer who is the assignee has updated the status.
C4_Witness ==
    /\ last.op = "update_task_status"
    /\ last.result = OK
    /\ get_user_role_in_project(last.caller, last.project_id) = VIEWER
    /\ tasks[last.task_id].assigned_to = last.caller

\* C5: delete_task removes a task only for a caller whose role is OWNER or
\* MANAGER; any other caller is refused and the tasks table stays as it was.
C5_Step ==
    last'.op = "delete_task" =>
        LET role == get_user_role_in_project(last'.caller, last'.project_id) IN
        /\ tasks' # tasks => role \in {OWNER, MANAGER}
        /\ role \notin {OWNER, MANAGER} => (last'.result # OK /\ tasks' = tasks)

C5_DeleteOnlyByOwnerOrManager == [][C5_Step]_vars

\* C5 witness: a developer was refused the deletion of the task assigned to
\* them, and the task is still there.
C5_Witness ==
    /\ last.op = "delete_task"
    /\ last.result = InsufficientPermissions
    /\ get_user_role_in_project(last.caller, last.project_id) = DEVELOPER
    /\ TaskExists(last.task_id)
    /\ tasks[last.task_id].assigned_to = last.caller

\* C6 as claimed: check_permission returns false for None, for "" and for
\* every role string that is not one of owner, manager, developer, viewer.
C6_AsClaimed ==
    (call.pc = "returned"
     /\ call.user_role \notin {"owner", "manager", "developer", "viewer"})
        => call.ret = FALSE

\* C6 amended: check_permission returns false (it does not raise) for None,
\* for "" and for every role string whose lower-case form is not one of
\* owner, manager, developer, viewer; a role value spelled in other letter
\* case is looked up as that role.
C6_FailClosed ==
    call.pc = "returned" =>
        /\ (call.user_role \in {None, ""}
            \/ lower(call.user_role) \notin {"owner", "manager", "developer", "viewer"})
                => call.ret = FALSE
        /\ (call.user_role \notin {None, ""}
            /\ lower(call.user_role) \in {"owner", "manager", "developer", "viewer"})
                => (call.ret <=> call.permission \in SpecTable(lower(call.user_role)))

\* C6 witness: a string that names no role was asked for a permission every
\* role holds, and the call returned false.
C6_Witness ==
    /\ call.pc = "returned"
    /\ call.user_role = "admin"
    /\ call.permission = "view_project"
    /\ call.ret = FALSE

\* C7 as claimed: for a project id that names no project,
\* get_user_role_in_project fails with ProjectNotFound; it returns neither a
\* role nor None.
C7_MissingProjectRaises ==
    \A u \in Users, p \in ProjectIds \ DOMAIN projects :
        get_user_role_in_project(u, p) = ProjectNotFound

\* C8 as claimed: no team_members row names the owner of the project it
\* belongs to.
C8_OwnerNeverARow ==
    \A m \in team_members :
        m.project_id \in DOMAIN projects
            => m.username # projects[m.project_id].owner_id

AddMemberOps == {"roles.add_team_member", "projects.add_team_member"}

\* C9 as claimed: an add-member request by the project owner that names the
\* owner as the new member is rejected with InvalidData and team_members is
\* the same before and after.
C9_Step ==
    (last'.op \in AddMemberOps
     /\ ProjectExists(last'.project_id)
     /\ last'.caller = projects[last'.project_id].owner_id
     /\ last'.username = projects[last'.project_id].owner_id)
        => (last'.result = InvalidData /\ team_members' = team_members)

C9_AddOwnerRejected == [][C9_Step]_vars

\* The owner of every project and the team_members table stay as they are.
OwnersAndMembersUnchanged ==
    /\ team_members' = team_members
    /\ DOMAIN projects' = DOMAIN projects
    /\ \A p \in DOMAIN projects : projects'[p].owner_id = projects[p].owner_id

\* C10 as claimed: remove_team_member with the owner's username fails with
\* CannotRemoveOwner, update_member_role with the owner's username fails with
\* InvalidData, and owner_id and team_members are unchanged.
C10_AsClaimed_Step ==
    /\ (last'.op = "roles.remove_team_member"
        /\ ProjectExists(last'.project_id)
        /\ last'.username = projects[last'.project_id].owner_id)
            => (last'.result = CannotRemoveOwner /\ OwnersAndMembersUnchanged)
    /\ (last'.op = "update_member_role"
        /\ ProjectExists(last'.project_id)
        /\ last'.username = projects[last'.project_id].owner_id)
            => (last'.result = InvalidData /\ OwnersAndMembersUnchanged)

C10_AsClaimed == [][C10_AsClaimed_Step]_vars

\* C10 amended: called by the project owner, remove_team_member with the
\* owner's username fails with CannotRemoveOwner and update_member_role with
\* the owner's username and a role of the enum fails with InvalidData; called
\* by any other user both fail with InsufficientPermissions; a body whose role
\* is outside the enum is refused before the handler runs; in every case
\* owner_id and team_members are unchanged.
C10_Step ==
    (last'.op \in {"roles.remove_team_member", "update_member_role"}
     /\ ProjectExists(last'.project_id)
     /\ last'.username = projects[last'.project_id].owner_id)
        => /\ OwnersAndMembersUnchanged
           /\ last'.result =
                IF last'.op = "update_member_role"
                   /\ last'.role \notin TeamMemberRole
                THEN RequestValidationError
                ELSE IF last'.caller # projects[last'.project_id].owner_id
                THEN InsufficientPermissions
                ELSE IF last'.op = "roles.remove_team_member"
                THEN CannotRemoveOwner
                ELSE InvalidData

C10_OwnerRowGuarded == [][C10_Step]_vars

\* C10 witness: the owner asked for a new role for the owner's username while
\* team_members holds a row for it; the request failed with InvalidData.
C10_Witness ==
    /\ last.op = "update_member_role"
    /\ last.result = InvalidData
    /\ ProjectExists(last.project_id)
    /\ last.username = projects[last.project_id].owner_id
    /\ select_members(last.project_id, last.username) # {}

\* An add-member request by the project owner for a user other than the
\* owner who already has a team_members row in the project, with a role of
\* the enum, through one of the routes in ops; the effect is an update in
\* place: one row for (project_id, username), same id, the requested role,
\* every other row as it was.
UpsertStep(ops) ==
    (last'.op \in ops
     /\ last'.role \in TeamMemberRole
     /\ ProjectExists(last'.project_id)
     /\ last'.caller = projects[last'.project_id].owner_id
     /\ last'.username # projects[last'.project_id].owner_id
     /\ select_members(last'.project_id, last'.username) # {})
        => LET row == first(select_members(last'.project_id, last'.username)) IN
           /\ last'.result = OK
           /\ team_members' =
                (team_members \ {row}) \cup {[row EXCEPT !.role = last'.role]}
           /\ Cardinality({m \in team_members' :
                               /\ m.project_id = last'.project_id
                               /\ m.username = last'.username}) = 1

\* C11 as claimed: adding a member who already has a team_members row for the
\* project, through either add-member route, updates the role of that row in
\* place (one row, same id, the requested role).
C11_UpsertInPlace == [][UpsertStep(AddMemberOps)]_vars

\* The same for the route of routes/roles.py alone, which does upsert.
RolesRouteUpserts == [][UpsertStep({"roles.add_team_member"})]_vars

\* C12 as claimed: an add_team_member or update_member_role request of
\* routes/roles.py by the owner of an existing project, with a role outside
\* {owner, manager, developer, viewer}, fails with InvalidRole and no
\* team_members row is inserted or updated.
C12_Step ==
    (last'.op \in {"roles.add_team_member", "update_member_role"}
     /\ last'.role \notin TeamMemberRole
     /\ ProjectExists(last'.project_id)
     /\ last'.caller = projects[last'.project_id].owner_id)
        => (last'.result = InvalidRole /\ team_members' = team_members)

C12_InvalidRoleBeforeMutation == [][C12_Step]_vars

\* What the routes do with such a role: every member route refuses the body
\* before its handler runs, whoever calls and whether or not the project
\* exists, and the store is as it was.
RoleOutsideEnumRefused ==
    [][(last'.op \in AddMemberOps \cup {"update_member_role"}
        /\ last'.role \notin TeamMemberRole)
           => (last'.result = RequestValidationError /\ store' = store)]_vars

\* Task counts of the project a call of calculate_project_progress is about.
total_tasks == Cardinality(tasks_of(call.project_id))
completed_tasks ==
    Cardinality({t \in tasks_of(call.project_id) : tasks[t].status = "completed"})

\* floor(100 * c / t), and 0 when t = 0
floor_percent(c, t) == IF t = 0 THEN 0 ELSE (100 * c) \div t

\* C13 as claimed: for every project with t tasks, c of them completed,
\* calculate_project_progress returns floor(100 * c / t) when t > 0 and 0 when
\* t = 0.
C13_ReturnsFloor ==
    call.pc \in {"returned", "recomputed"}
        => call.ret = floor_percent(completed_tasks, total_tasks)

\* Up to 50 tasks the value returned is the floor except for 29 completed
\* of 50, where it is one less.
FloorExceptAt29Of50 ==
    call.pc \in {"returned", "recomputed"}
        => call.ret = IF completed_tasks = 29 /\ total_tasks = 50 THEN 57
                      ELSE floor_percent(completed_tasks, total_tasks)

\* C14: the value calculate_project_progress returns is an integer in
\* [0,100], it is 100 when the project has a task and all its tasks are
\* completed, and a second call with no task change in between returns the
\* same value.
C14_Range ==
    call.pc \in {"returned", "recomputed"}
        => /\ call.ret \in 0..100
           /\ (total_tasks >= 1 /\ completed_tasks = total_tasks)
                  => call.ret = 100

C14_Recompute ==
    (call.pc = "returned" /\ call'.pc = "recomputed" /\ tasks' = tasks)
        => call'.ret = call.ret

C14_InRangeAndIdempotent == [] C14_Range /\ [][C14_Recompute]_vars

\* C14 witness: the progress of a project with tasks in all three statuses
\* was computed twice and lies strictly between 0 and 100.
C14_Witness ==
    /\ call.pc = "recomputed"
    /\ \A s \in TaskStatus : \E t \in tasks_of(call.project_id) : tasks[t].status = s
    /\ call.ret > 0
    /\ call.ret < 100

\* All tasks of a project are completed and the value returned is 100.
AllCompletedReached ==
    /\ call.pc = "recomputed"
    /\ total_tasks >= 2
    /\ completed_tasks = total_tasks
    /\ call.ret = 100

\* The operations that call calculate_project_progress.
RecomputeOps == {"update_task", "update_task_status"}

\* C15 as claimed: the stored progress of a project is changed only by
\* calculate_project_progress: a step changes it only within a request that
\* runs the recompute, to the value the recompute returns, and a project is
\* created with progress 0, not with a value the caller supplies.
C15_Step ==
    /\ \A p \in DOMAIN projects \cap DOMAIN projects' :
          projects'[p].progress # projects[p].progress
              => /\ last'.op \in RecomputeOps
                 /\ last'.project_id = p
                 /\ projects'[p].progress =
                        calculate_project_progress_return(tasks', p)
    /\ \A p \in DOMAIN projects' \ DOMAIN projects : projects'[p].progress = 0

C15_ProgressOnlyRecomputed == [][C15_Step]_vars

\* The same without the routes of routes/projects.py that take progress from
\* the request body: no task or membership operation writes a value other
\* than the one the recompute returns.
ProgressFrameOutsideProjectRoutes ==
    [][last'.op \notin {"create_project", "update_project"} => C15_Step]_vars

\* floor(100 * completed / total) over the tasks of project p in table tbl
floor_progress(tbl, p) ==
    LET ids == {t \in DOMAIN tbl : tbl[t].project_id = p} IN
    floor_percent(Cardinality({t \in ids : tbl[t].status = "completed"}),
                  Cardinality(ids))

\* A completed request of the operations in ops on a project whose stored
\* progress was right before the request (update_task counts when it
\* changes the task's status) leaves the stored progress right.
ProgressKeptBy(ops) ==
    (last'.op \in ops
     /\ last'.result = OK
     /\ (last'.op = "update_task"
            => tasks'[last'.task_id].status # tasks[last'.task_id].status)
     /\ projects[last'.project_id].progress = floor_progress(tasks, last'.project_id))
        => projects'[last'.project_id].progress
               = floor_progress(tasks', last'.project_id)

\* C16 as claimed: after every completed create_task, delete_task, update_task
\* that sets status, and update_task_status, the stored progress of the
\* project equals floor(100 * completed / total) over its current tasks (0
\* when it has none).
C16_ProgressFollowsTasks ==
    [][ProgressKeptBy({"create_task", "delete_task", "update_task",
                       "update_task_status"})]_vars

\* The same for the two routes that call the recompute.
StatusChangeRecomputes == [][ProgressKeptBy(RecomputeOps)]_vars

\* The requests that have written the progress, and the one that wrote last.
writers == {r \in RequestIds : inflight[r].wrote > 0}
last_writer == CHOOSE r \in writers : \A x \in writers : inflight[x].wrote <= inflight[r].wrote

\* C17: the recompute is last-write-wins: once a request has written, the
\* stored progress is the value computed by the request that wrote last,
\* whatever the tasks have become since that request read them.
C17_LastWriteWins ==
    writers # {} => projects[1].progress = inflight[last_writer].progress

\* C17 witness: two update_task_status requests on project 1 have both
\* finished and written, and the stored progress is not
\* floor(100 * completed / total) of the final tasks.
C17_Witness ==
    /\ \A r \in RequestIds : inflight[r].pc = "done"
    /\ Cardinality(writers) >= 2
    /\ projects[1].progress = inflight[last_writer].progress
    /\ projects[1].progress # floor_progress(tasks, 1)

TaskRouteOps == {"get_task", "update_task", "update_task_status", "delete_task"}

\* A task route is called with a project id and the id of a task that
\* belongs to a different project.
CrossProjectRequest ==
    /\ last'.op \in TaskRouteOps
    /\ ProjectExists(last'.project_id)
    /\ TaskExists(last'.task_id)
    /\ tasks[last'.task_id].project_id # last'.project_id

\* C18 as claimed: such a request fails with TaskNotFound, whatever the
\* caller's role in either project, and the task is unchanged.
C18_AsClaimed_Step ==
    CrossProjectRequest => (last'.result = TaskNotFound /\ tasks' = tasks)

C18_AsClaimed == [][C18_AsClaimed_Step]_vars

\* C18 amended: such a request by the owner or a team member of the named
\* project fails with TaskNotFound, as for an absent task id, whatever the
\* caller's role in the task's own project; a caller who is neither owner
\* nor member of the named project is refused with UnauthorizedAccess, again
\* as for an absent task id; the task is unchanged in both cases.
C18_Step ==
    CrossProjectRequest =>
        /\ tasks' = tasks
        /\ projects' = projects
        /\ last'.result =
              IF is_project_member(last'.caller, last'.project_id)
              THEN TaskNotFound
              ELSE UnauthorizedAccess

C18_CrossProjectNotFound == [][C18_Step]_vars

\* C18 witness: a user who owns the task's project and is a viewer in the
\* named project asked to delete the task through the named project and got
\* TaskNotFound; the task is still there.
C18_Witness ==
    /\ last.op = "delete_task"
    /\ last.result = TaskNotFound
    /\ TaskExists(last.task_id)
    /\ tasks[last.task_id].project_id # last.project_id
    /\ get_user_role_in_project(last.caller, tasks[last.task_id].project_id) = OWNER
    /\ get_user_role_in_project(last.caller, last.project_id) = VIEWER

\* C19 as claimed: every access check called with the id of a project that
\* does not exist raises ProjectNotFound; none answers with a permission
\* error or with success.
C19_MissingProjectFirst ==
    \A u \in Users, p \in ProjectIds \ DOMAIN projects :
        /\ verify_project_access(p, u) = ProjectNotFound
        /\ verify_analytics_access(p, u) = ProjectNotFound
        /\ \A require_owner \in BOOLEAN :
              check_project_access(p, u, require_owner) = ProjectNotFound
        /\ verify_project_exists(p) = ProjectNotFound
        /\ \A required_roles \in SUBSET Role :
              require_role(required_roles, u, p) = ProjectNotFound
        /\ require_project_member(u, p) = ProjectNotFound
        /\ \A permission \in Permission :
              require_permission(permission, u, p) = ProjectNotFound

\* The checks the routes call do raise ProjectNotFound for a missing project.
RouteChecksFindMissingProject ==
    \A u \in Users, p \in ProjectIds \ DOMAIN projects :
        /\ verify_project_access(p, u) = ProjectNotFound
        /\ verify_analytics_access(p, u) = ProjectNotFound
        /\ \A require_owner \in BOOLEAN :
              check_project_access(p, u, require_owner) = ProjectNotFound
        /\ verify_project_exists(p) = ProjectNotFound

\* The dependencies of utils/middleware.py answer a missing project with a
\* permission error.
MiddlewareOnMissingProject ==
    \A u \in Users, p \in ProjectIds \ DOMAIN projects :
        /\ \A required_roles \in SUBSET Role :
              require_role(required_roles, u, p) = InsufficientPermissions
        /\ require_project_member(u, p) = UnauthorizedAccess
        /\ \A permission \in Permission :
              require_permission(permission, u, p) = InsufficientPermissions

\* A request on an existing project by a caller who is neither its owner nor
\* a team member of it.
NonMemberRequest ==
    /\ last'.op # "none"
    /\ ProjectExists(last'.project_id)
    /\ ~is_project_member(last'.caller, last'.project_id)

\* C20 as claimed: no project-scoped read or mutation succeeds for an
\* authenticated caller who is neither the owner nor a team member of the
\* project: every such request is refused.
C20_NonMembersRefused == [][NonMemberRequest => last'.result # OK]_vars

\* The same for every route but the member analytics.
NonMembersRefusedElsewhere ==
    [][(NonMemberRequest /\ last'.op # "get_member_analytics")
            => last'.result # OK]_vars

\* C21: remove_team_member (DELETE /projects/{id}/members/{username}) deletes
\* exactly the team_members row of (project, username) and leaves every task
\* unchanged: the tasks assigned to the removed user keep their assigned_to,
\* status and project_id, and no task is deleted.
C21_Step ==
    last'.op = "roles.remove_team_member" =>
        /\ tasks' = tasks
        /\ IF last'.result = OK
           THEN /\ Cardinality(select_members(last'.project_id, last'.username)) = 1
                /\ team_members' = team_members \
                        select_members(last'.project_id, last'.username)
           ELSE team_members' = team_members

C21_RemovalKeepsTasks == [][C21_Step]_vars

\* A member was removed while a task of the project is assigned to them, and
\* a row of the other project is still in the table.
C21_Witness ==
    /\ last.op = "roles.remove_team_member"
    /\ last.result = OK
    /\ \E t \in DOMAIN tasks : /\ tasks[t].project_id = last.project_id
                               /\ tasks[t].assigned_to = last.username
    /\ team_members # {}

\* The callers the assignment rule is about: owner or manager of the project.
OwnerOrManager(u, p) == get_user_role_in_project(u, p) \in {OWNER, MANAGER}

\* What create_task and update_task store: a task that is new, or whose
\* assignee changed, is unassigned or assigned to the owner or a team member
\* of its project; a refused request leaves the tasks table as it was.
AssigneeStoredIsMember ==
    last'.op \in {"create_task", "update_task"} =>
        /\ last'.result # OK => tasks' = tasks
        /\ \A t \in DOMAIN tasks' :
              (t \notin DOMAIN tasks
                  \/ tasks'[t].assigned_to # tasks[t].assigned_to)
              => \/ tasks'[t].assigned_to = None
                 \/ is_project_member(tasks'[t].assigned_to, tasks'[t].project_id)

\* C22 as claimed: with requests executed one at a time, create_task and
\* update_task never store a non-null assigned_to naming a user who is neither
\* the owner nor a team member of the task's project at the time of the
\* request; a request by an owner or manager that names such a user fails with
\* InvalidData and the task table is unchanged.
C22_AsClaimed_Requests ==
    \A u \in AssignUsers, a \in AssignUsers, p \in DOMAIN projects :
        (OwnerOrManager(u, p) /\ ~is_project_member(a, p)) =>
            /\ create_task_outcome(u, p, a) = InvalidData
            /\ \A t \in tasks_of(p), b \in AssignUpdate :
                  b.assigned_to = a =>
                      update_task_outcome(u, p, t, a, b.status, b.other)
                          = InvalidData

C22_Requests ==
    \A u \in AssignUsers, a \in AssignUsers, p \in DOMAIN projects :
        (OwnerOrManager(u, p) /\ ~is_project_member(a, p)) =>
            /\ create_task_outcome(u, p, a) = InvalidData
            /\ \A t \in tasks_of(p), b \in AssignUpdate :
                  b.assigned_to = a =>
                      update_task_outcome(u, p, t, a, b.status, b.other)
                          = IF tasks[t].assigned_to = a THEN OK ELSE InvalidData

C23_Step ==
    /\ (\E t \in DOMAIN tasks \cap DOMAIN tasks' :
            tasks'[t].assigned_to # tasks[t].assigned_to)
        => /\ last'.op = "update_task"
           /\ last'.result = OK
           /\ check_permission(
                  get_user_role_in_project(last'.caller, last'.project_id),
                  "assign_task")
    /\ (last'.op = "update_task" /\ last'.result # OK) => tasks' = tasks

\* The developer's case: an update_task of a developer on a task assigned to
\* them, with an assigned_to other than themselves (another user or null), is
\* refused with InsufficientPermissions.
C23_Developer ==
    \A u \in AssignUsers, p \in DOMAIN projects :
        \A t \in tasks_of(p), b \in AssignUpdate :
            (/\ get_user_role_in_project(u, p) = DEVELOPER
             /\ tasks[t].assigned_to = u
             /\ b.assigned_to \notin {Unset, u})
            => update_task_outcome(u, p, t, b.assigned_to, b.status, b.other)
                   = InsufficientPermissions

\* C23: update_task changes a task's assigned_to (to another user or to null)
\* only when the caller's role in the project holds ASSIGN_TASK (owner or
\* manager): a DEVELOPER allowed to edit a task assigned to them is refused
\* with InsufficientPermissions when the update carries an assigned_to
\* different from the current one, and the task is left unchanged.
C23_AssignNeedsPermission == [] C23_Developer /\ [][C23_Step]_vars

\* A developer's update_task on the task assigned to them was refused with
\* InsufficientPermissions: they may edit the task, so the refusal is the
\* one of the assignment.
C23_Witness ==
    /\ last.op = "update_task"
    /\ last.result = InsufficientPermissions
    /\ get_user_role_in_project(last.caller, last.project_id) = DEVELOPER
    /\ last.task_id \in DOMAIN tasks
    /\ tasks[last.task_id].project_id = last.project_id
    /\ tasks[last.task_id].assigned_to = last.caller

MembershipOps ==
    {"roles.add_team_member", "projects.add_team_member", "update_member_role",
     "roles.remove_team_member", "projects.remove_team_member"}

\* A membership route called on a project by a user who is not its owner is
\* refused and leaves the team_members table as it was.
NonOwnerRefused ==
    (last'.op \in MembershipOps
        /\ ~is_project_owner(last'.caller, last'.project_id))
    => (last'.result # OK /\ team_members' = team_members)

\* The rows of a project change only in a request of the project's owner.
TeamChangedByItsOwner ==
    \A q \in DOMAIN projects :
        {m \in team_members' : m.project_id = q} # members_of(q)
            => last'.caller = projects[q].owner_id

\* C24: team membership is changed only by the project owner:
\* add_team_member, update_member_role and remove_team_member (both the
\* /members and the /team routes) called by any other user, including a
\* MANAGER of the project, are refused and leave the team_members table
\* unchanged.
C24_OnlyOwnerChangesTeam == [][NonOwnerRefused /\ TeamChangedByItsOwner]_vars

\* The part of it that holds: the refusal of a caller who does not own the
\* project the request is addressed to.
MembershipRoutesRefuseNonOwners == [][NonOwnerRefused]_vars

\* The token t is in the table tbl of tokens.
StoredIn(tbl, t) == \E r \in tbl : r.token = t

\* The token t is in the auth_tokens table.
Stored(t) == StoredIn(auth_tokens, t)

\* A header of the form Bearer <token>: two words, the first of which is the
\* scheme Bearer (a scheme name, compared without regard to letter case).
BearerForm(h) ==
    /\ ~h.missing
    /\ h.scheme \in {"Bearer", "bearer", "BEARER"}
    /\ Len(h.tokens) = 1

\* Which requests pass: a protected operation runs, for the user the token
\* was handed to, exactly when the header has the form Bearer <token> and
\* the token is a stored one; every other request is answered 401.  The
\* stored tokens are tokens that were handed out, each to one registered user.
C25_Accepted ==
    /\ \A h \in HeaderInputs :
          IF BearerForm(h) /\ Stored(h.tokens[1])
          THEN /\ protected_outcome(h) = OK
               /\ \E r \in auth_tokens : /\ r.token = h.tokens[1]
                                         /\ r.username = get_current_user(h)
          ELSE protected_outcome(h) = Unauthorized
    /\ \A r \in auth_tokens :
          /\ r.token < nextToken
          /\ \E u \in users : u.username = r.username
          /\ \A x \in auth_tokens : x.token = r.token => x = r

\* How the stored tokens change: a token becomes stored only as the token a
\* successful signup or login returns, which was never handed out before; a
\* stored token stops being stored only in a successful logout that was sent
\* this token, so the logout of one token leaves every other token stored;
\* and the token a successful logout was sent is no longer stored.
C25_Step ==
    /\ \A t \in 1..(MaxTokens + 1) :
          /\ (StoredIn(auth_tokens', t) /\ ~Stored(t))
                => /\ last'.op \in {"signup", "login"}
                   /\ last'.result = OK
                   /\ last'.token = t
                   /\ t = nextToken
          /\ (Stored(t) /\ ~StoredIn(auth_tokens', t))
                => /\ last'.op = "logout"
                   /\ last'.result = OK
                   /\ last'.token = t
    /\ (last'.op \in {"signup", "login"} /\ last'.result = OK)
          => StoredIn(auth_tokens', last'.token)
    /\ (last'.op = "logout" /\ last'.result = OK)
          => (Stored(last'.token) /\ ~StoredIn(auth_tokens', last'.token))
    /\ (last'.op = "logout" /\ last'.result # OK) => auth_tokens' = auth_tokens
    /\ nextToken' >= nextToken

\* C25: a bearer token is accepted by a protected operation if and only if
\* it was returned by a successful signup or login and has not since been
\* passed to a successful logout: a request with no Authorization header, a
\* header not of the form 'Bearer <token>', a never-issued token or a
\* logged-out token is rejected with 401 before the operation runs, and
\* logging out one token leaves every other issued token valid.
C25_TokenLifecycle == [] C25_Accepted /\ [][C25_Step]_vars

\* A request with a logged-out token (handed out, no longer stored) was
\* answered 401 while another token is still stored.
C25_Witness ==
    /\ last.op = "get_all_projects"
    /\ last.result = Unauthorized
    /\ last.token \in 1..(nextToken - 1)
    /\ ~Stored(last.token)
    /\ auth_tokens # {}

\* A request with the token of a user who has logged out another token was
\* accepted.
C25_OtherTokenStillValid ==
    /\ last.op = "get_all_projects"
    /\ last.result = OK
    /\ \E t \in 1..(nextToken - 1) :
          /\ ~Stored(t)
          /\ t # last.token

\* The dates of the timeline: days+1 records, the last of the day of now,
\* each record of the day after the one of the record before it.
TimelineDates ==
    call.pc = "returned" =>
        /\ Len(call.ret) = call.days + 1
        /\ call.ret[Len(call.ret)].date = strftime(call.now)
        /\ call.ret[1].date = strftime(minus_days(call.now, call.days))
        /\ \A i \in 1..(Len(call.ret) - 1) :
              \E d \in {minus_days(call.now, k) : k \in 1..call.days} :
                  /\ call.ret[i].date = strftime(d)
                  /\ call.ret[i + 1].date = strftime(next_day(d))

\* The tasks of the project completed on or before the day of record i.
completed_by(i) ==
    Cardinality({t \in tasks_of(call.project_id) :
        /\ tasks[t].status = "completed"
        /\ tasks[t].updated_at # NoDate
        /\ date_le(tasks[t].updated_at,
                   minus_days(call.now, Len(call.ret) - i))})

\* The counts of the timeline: total is the number of tasks of the project,
\* completed the number of those completed on or before the day, which
\* never decreases from one record to the next.
TimelineCounts ==
    call.pc = "returned" =>
        /\ \A i \in 1..Len(call.ret) :
              /\ call.ret[i].total = Cardinality(tasks_of(call.project_id))
              /\ call.ret[i].completed = completed_by(i)
        /\ \A i \in 1..(Len(call.ret) - 1) :
              call.ret[i].completed <= call.ret[i + 1].completed

\* C26: get_project_timeline(project, days) with days >= 0 returns exactly
\* days+1 records, one per consecutive calendar day from (now - days) to now
\* inclusive in increasing date order; in each record total is the project's
\* current task count, completed is the number of tasks with status
\* completed whose updated_at date is on or before that day, and progress is
\* floor(100 * completed / total) (0 when total is 0), so completed never
\* decreases from one record to the next.
C26_Timeline ==
    /\ TimelineDates
    /\ TimelineCounts
    /\ call.pc = "returned" =>
          \A i \in 1..Len(call.ret) :
              call.ret[i].progress =
                  floor_percent(call.ret[i].completed, call.ret[i].total)

\* Days, counts and order are as claimed, and so is the progress of every
\* record but those of 29 completed tasks of 50.
TimelineExceptAt29Of50 ==
    /\ TimelineDates
    /\ TimelineCounts
    /\ call.pc = "returned" =>
          \A i \in 1..Len(call.ret) :
              call.ret[i].progress =
                  IF call.ret[i].completed = 29 /\ call.ret[i].total = 50
                  THEN 57
                  ELSE floor_percent(call.ret[i].completed, call.ret[i].total)

C28_StoredIsReturned ==
    call.pc \in {"returned", "recomputed"} =>
        projects[call.project_id].progress = call.ret

\* With at least one task the stored progress is the returned value; with
\* none the call returns 0.
StoredIsReturnedWithTasks ==
    call.pc \in {"returned", "recomputed"} =>
        IF tasks_of(call.project_id) # {}
        THEN projects[call.project_id].progress = call.ret
        ELSE call.ret = 0

\* A call on a project without tasks writes nothing.
NoWriteWithoutTasks ==
    [][tasks_of(call.project_id) = {} => projects' = projects]_vars

\* The rows of the projects other than p are the same after the step.
OtherProjectsUntouched(p) ==
    /\ {m \in team_members : m.project_id # p} =
       {m \in team_members' : m.project_id # p}
    /\ {t \in DOMAIN tasks : tasks[t].project_id # p} =
       {t \in DOMAIN tasks' : tasks'[t].project_id # p}
    /\ \A t \in DOMAIN tasks :
          tasks[t].project_id # p => tasks'[t] = tasks[t]

\* C29: An operation authorised against project P never inserts, updates or
\* deletes a task or team_members row that belongs to a different project Q:
\* in particular the /projects/{P}/team/{member_id} removal by P's owner
\* deletes a row only if that row's project_id is P.
C29_Step ==
    last'.op # "none" => OtherProjectsUntouched(last'.project_id)

C29_OnlyOwnProjectRows == [][C29_Step]_vars

\* What holds of every route but the removal by row id.
OnlyOwnProjectRowsButRemovalById ==
    [][last'.op # "projects.remove_team_member" => C29_Step]_vars

\* owner_id is the caller of create_project, and no step changes the
\* owner_id of a project that exists before and after it.
OwnerIdStep ==
    /\ \A p \in DOMAIN projects \cap DOMAIN projects' :
          projects'[p].owner_id = projects[p].owner_id
    /\ \A p \in DOMAIN projects' \ DOMAIN projects :
          /\ last'.op = "create_project"
          /\ projects'[p].owner_id = last'.caller

OwnerIdNeverChanges == [][OwnerIdStep]_vars

\* Only the user named by owner_id resolves to OWNER.
OnlyCreatorResolvesToOwner ==
    \A p \in DOMAIN projects : \A u \in Users :
        get_user_role_in_project(u, p) = OWNER => u = projects[p].owner_id

\* C30: A project's owner_id is the username of the user who created it and
\* never changes afterwards: no sequence of update_project, membership or
\* task operations by any user alters owner_id, so no user other than the
\* creator ever resolves to OWNER in that project.
C30_OwnerIsCreator == [][OwnerIdStep /\ OnlyCreatorResolvesToOwner']_vars

\* Only the user named by owner_id passes the owner-only checks.
OnlyCreatorIsProjectOwner ==
    \A p \in DOMAIN projects : \A u \in Users :
        is_project_owner(u, p) <=> u = projects[p].owner_id

=============================================================================
